---- MODULE Spec2Model ----
(***************************************************************************)
(* Kyra::Resource (engines/kyra/resource/resource.cpp): the archive cache, *)
(* the normal and the protected layer, the composite search set _files,    *)
(* and the operations of the facade on them.                               *)
(*                                                                         *)
(* Names are strings with their letter case; ToUpper is                    *)
(* Common::String::toUppercase on the names of the world below.  An        *)
(* archive instance is named by the cache key it was created for and the   *)
(* number of the parse that created it; Null is the null pointer.  A       *)
(* physical file is a key of World.                                        *)
(***************************************************************************)
EXTENDS Integers, Sequences, FiniteSets, TLC

\* Largest number of Archive objects allocated in one lifetime of a Resource.
MaxArchives == 3

----------------------------------------------------------------------------
(* The world: the files of the game directory and of the packages.         *)

\* Common::String::toUppercase, on the names that occur.
ToUpper(n) ==
    CASE n = "misc.pak" -> "MISC.PAK"
      [] n = "general.pak" -> "GENERAL.PAK"
      [] n = "other.pak" -> "OTHER.PAK"
      [] n = "font.fnt" -> "FONT.FNT"
      [] n = "emc.pak" -> "EMC.PAK"
      [] n = "Install Legend of Kyrandia" -> "INSTALL LEGEND OF KYRANDIA"
      [] OTHER -> n

\* Physical files: on-disk (or in-package) name, the loader whose isLoadable
\* accepts the content ("none": no loader), and the members of a package.
\* ITEM.DAT and TEXT.DAT are in the game directory and in misc.pak, FONT.FNT
\* is in two packages, MOUSE.SHP in the installers and in two packages.
\* dTrunc is a file whose content isLoadable of the PAK loader and of the TLK
\* loader both accept, and of which load of the PAK loader makes no archive.
World ==
    [ dGeneral |-> [name |-> "GENERAL.PAK", fmt |-> "PAK", contents |-> {"fFont"}],
      dMisc    |-> [name |-> "misc.pak",    fmt |-> "PAK", contents |-> {"fItem", "fText", "fFont"}],
      dEye     |-> [name |-> "EYE.PAK",     fmt |-> "none", contents |-> {}],
      fFont    |-> [name |-> "FONT.FNT",    fmt |-> "none", contents |-> {}],
      fItem    |-> [name |-> "ITEM.DAT",    fmt |-> "none", contents |-> {}],
      fText    |-> [name |-> "TEXT.DAT",    fmt |-> "none", contents |-> {}],
      dItem    |-> [name |-> "ITEM.DAT",    fmt |-> "none", contents |-> {}],
      dText    |-> [name |-> "TEXT.DAT",    fmt |-> "none", contents |-> {}],
      ins      |-> [name |-> "WESTWOOD",    fmt |-> "WWINST", contents |-> {"iOther", "iMouse"}],
      macIns   |-> [name |-> "Install Legend of Kyrandia", fmt |-> "SIT",
                    contents |-> {"iOther", "iMouse"}],
      iMouse   |-> [name |-> "MOUSE.SHP",   fmt |-> "none", contents |-> {}],
      dWw001   |-> [name |-> "WESTWOOD.001", fmt |-> "INS", contents |-> {"fMouse"}],
      dFdt     |-> [name |-> "FILEDATA.FDT", fmt |-> "none", contents |-> {}],
      dSpeech  |-> [name |-> "SPEECH.TLK",  fmt |-> "TLK", contents |-> {}],
      iOther   |-> [name |-> "OTHER.PAK",   fmt |-> "PAK", contents |-> {"fMouse"}],
      fMouse   |-> [name |-> "MOUSE.SHP",   fmt |-> "none", contents |-> {}],
      dEmc     |-> [name |-> "emc.pak",     fmt |-> "PAK", contents |-> {}],
      dJmc     |-> [name |-> "JMC.PAK",     fmt |-> "PAK", contents |-> {}],
      dTwmusic |-> [name |-> "TWMUSIC.PAK", fmt |-> "none", contents |-> {}],
      dCave    |-> [name |-> "CAVE.APK",    fmt |-> "PAK", contents |-> {}],
      dBad     |-> [name |-> "BAD.PAK",     fmt |-> "none", contents |-> {}],
      dTrunc   |-> [name |-> "SPEECH.TLK",  fmt |-> "PAK+TLK", contents |-> {}] ]

PhysFiles == DOMAIN World

\* The files the global search manager (the game directory) holds.
GameDir == {"dGeneral", "dMisc", "dEye", "dWw001", "dFdt", "dSpeech", "dItem", "dText"}

\* The order in which a directory or a package lists its members.
ListOrder == <<"dGeneral", "dMisc", "dEye", "dWw001", "dFdt", "iOther", "fFont", "fItem", "fMouse",
               "dEmc", "dJmc", "dTwmusic", "dCave", "dBad">>

\* The packages a game directory may have besides: the script archives of
\* the two languages, the music, a package of the Android port, and a file
\* that is no package.
DirExtras == {"dEmc", "dJmc", "dTwmusic", "dCave", "dBad"}

\* The .PAK names FILEDATA.FDT lists (file names as stored, 12 characters).
FileDataEntries == <<"misc.pak", "GENERAL.PAK">>

\* The names a caller passes to the package operations.
PakNames == {"GENERAL.PAK", "MISC.PAK", "misc.pak", "EYE.PAK", "OTHER.PAK"}

\* The logical names a caller looks up.
FileNames == {"FONT.FNT", "font.fnt", "ITEM.DAT", "MOUSE.SHP", "TEXT.DAT"}

\* Every string that can become a key of the archive cache.
AllKeys == PakNames \cup {"WESTWOOD", "WESTWOOD.001", "Install Legend of Kyrandia",
                         "emc.pak", "JMC.PAK", "CAVE.APK"}

----------------------------------------------------------------------------
(* The game variants (KyraEngine_v1::game() and gameFlags()).              *)

Variant(g, p, inst, demo, talkie, l) ==
    [game |-> g, platform |-> p, useInstallerPackage |-> inst,
     isDemo |-> demo, isTalkie |-> talkie, lang |-> l]

\* ConfMan's "path" names an existing directory.
GamePathValid == TRUE

Variants ==
    { Variant("GI_KYRA1", "DOS", FALSE, FALSE, FALSE, "EN_ANY"),
      Variant("GI_KYRA1", "DOS", FALSE, FALSE, TRUE,  "EN_ANY"),
      Variant("GI_KYRA1", "DOS", FALSE, TRUE,  FALSE, "EN_ANY"),
      Variant("GI_KYRA1", "Macintosh", TRUE, FALSE, FALSE, "EN_ANY"),
      Variant("GI_EOB1",  "DOS", FALSE, FALSE, FALSE, "ES_ESP"),
      Variant("GI_KYRA2", "DOS", TRUE,  FALSE, FALSE, "EN_ANY"),
      Variant("GI_KYRA2", "DOS", FALSE, TRUE,  FALSE, "EN_ANY"),
      Variant("GI_LOL",   "DOS", TRUE,  FALSE, FALSE, "EN_ANY"),
      Variant("GI_KYRA3", "DOS", FALSE, FALSE, FALSE, "EN_ANY"),
      Variant("GI_EOB2",  "DOS", FALSE, FALSE, FALSE, "EN_ANY"),
      Variant("GI_UNKNOWN", "DOS", FALSE, FALSE, FALSE, "EN_ANY") }

----------------------------------------------------------------------------
(* Common::SearchSet: a list of named archives kept in descending priority, *)
(* a new node going behind the nodes of equal priority.                     *)

\* An Archive object, and the null pointer.
Arc(k, g) == [key |-> k, gen |-> g]
Null == Arc("", 0)

Node(n, k, a, p) == [name |-> n, kind |-> k, arc |-> a, prio |-> p]

\* SearchSet::hasArchive: the node names are compared as they are.
SSHasArchive(ss, n) == \E i \in 1..Len(ss) : ss[i].name = n

\* SearchSet::add: nothing when the name is present already.
SSAdd(ss, nd) ==
    IF SSHasArchive(ss, nd.name) THEN ss
    ELSE LET lower == {i \in 1..Len(ss) : ss[i].prio < nd.prio}
             pos == IF lower = {} THEN Len(ss) + 1
                    ELSE CHOOSE i \in lower : \A j \in lower : i <= j
         IN SubSeq(ss, 1, pos - 1) \o <<nd>> \o SubSeq(ss, pos, Len(ss))

\* SearchSet::remove
SSRemove(ss, n) == SelectSeq(ss, LAMBDA x : x.name # n)

----------------------------------------------------------------------------
(* The state of a Resource object as a record s:                           *)
(*   cache          _archiveCache, key -> archive instance                 *)
(*   archiveFiles   _archiveFiles, the normal layer                        *)
(*   protectedFiles _protectedFiles, the protected layer                   *)
(*   files          _files, the composite search set                       *)
(*   arcFile        for every instance allocated, the file it was parsed   *)
(*                  from                                                   *)
(*   destroyed      the instances that were deleted                        *)
(*   parses         per cache key, how often a loader's load ran for it    *)
(*   returned       per cache key, the instance the latest loadArchive /   *)
(*                  loadInstallerArchive / loadStuffItArchive returned     *)
(*                  (Null before the first, and after the entry was        *)
(*                  erased)                                                *)
(*   status         "running", "fatal" after error(), "crashed" after a    *)
(*                  destroyed or null archive was dereferenced             *)
(*   disk           the Macintosh installer of Kyra 1 as the disk has it   *)
(*   handed         the bytes of the stream handed to StuffItLoader::load  *)
(*                  (none before it was called with a stream)              *)
(*   streams        the streams the facade has made and has neither        *)
(*                  deleted nor given to a loader or to its caller         *)

\* The archive cache with no entry.
EmptyMap == [k \in {} |-> 0]

Fatal(s) == [s EXCEPT !.status = "fatal"]
Crashed(s) == [s EXCEPT !.status = "crashed"]

\* Resource::Resource, lines 78-82: the three layers of _files.
InitFiles ==
    << Node("global_search", "global", Null, 3),
       Node("protected", "protected", Null, 1),
       Node("archives", "archives", Null, 0) >>

\* The installer of Kyra 1 for the Macintosh on the disk: the one file
\* "Install Legend of Kyrandia", or the five parts "Legend of Kyrandia
\* Installer", ".2" to ".5", parts[i] the size of part i, -1 for a part that
\* cannot be opened.
\* westwood: the installer package WESTWOOD.001 ... of Kyra 2 and LoL is there.
\* extra: the files of DirExtras the game directory has.
\* fdt: the .PAK names FILEDATA.FDT lists.
SingleInstaller ==
    [single |-> TRUE, parts |-> <<>>, westwood |-> TRUE, extra |-> {},
     fdt |-> FileDataEntries]
SplitInstaller(sizes) == [SingleInstaller EXCEPT !.single = FALSE, !.parts = sizes]
\* The disk without the installer of Kyra 1, and without the one of Kyra 2 and LoL.
NoInstaller == [SingleInstaller EXCEPT !.single = FALSE, !.westwood = FALSE]

InitState ==
    [ cache |-> EmptyMap,
      archiveFiles |-> <<>>,
      protectedFiles |-> <<>>,
      files |-> InitFiles,
      arcFile |-> EmptyMap,
      destroyed |-> {},
      parses |-> [k \in AllKeys |-> 0],
      returned |-> [k \in AllKeys |-> Null],
      status |-> "running",
      disk |-> SingleInstaller,
      handed |-> <<>>,
      streams |-> 0 ]

\* A stream the facade has made: member->createReadStream(),
\* createReadStream(file), MacResManager::openFileOrDataFork, new
\* ConcatReadStream.
CreateStream(s) == [s EXCEPT !.streams = @ + 1]

\* Mutant of DeleteStream: the stream is left open.
DeleteStream_Skipped(s) == s

\* delete stream
DeleteStream(s) == [s EXCEPT !.streams = @ - 1]

\* The stream goes to a loader that keeps it.
GiveStream(s) == [s EXCEPT !.streams = @ - 1]

----------------------------------------------------------------------------
(* Lookup through _files: SearchSet::getMember / hasFile /                  *)
(* createReadStreamForMember take the first node, in list order, that has   *)
(* the file.  File names inside the game directory and inside a package     *)
(* are matched without regard to case.                                      *)

DiskFilesNamed(n) == {f \in GameDir : ToUpper(World[f].name) = ToUpper(n)}

\* The same of the game directory of the disk of s.
DirFilesNamed(s, n) ==
    {f \in GameDir \cup s.disk.extra : ToUpper(World[f].name) = ToUpper(n)}

MembersNamed(pf, n) == {f \in World[pf].contents : ToUpper(World[f].name) = ToUpper(n)}

\* The nodes consulted, in order: the sub-sets "protected" and "archives"
\* of _files are consulted through their own nodes.
RECURSIVE Flatten(_, _)
Flatten(s, i) ==
    IF i > Len(s.files) THEN <<>>
    ELSE LET nd == s.files[i]
             part == CASE nd.kind = "protected" -> s.protectedFiles
                       [] nd.kind = "archives" -> s.archiveFiles
                       [] OTHER -> <<nd>>
         IN part \o Flatten(s, i + 1)

NotFound == [kind |-> "none", pf |-> "", arc |-> Null]
Crash == [kind |-> "crash", pf |-> "", arc |-> Null]
Hit(f, a) == [kind |-> "hit", pf |-> f, arc |-> a]
Garbage(a) == [kind |-> "garbage", pf |-> "", arc |-> a]

\* The possible results of looking n up from node i on.  A node whose
\* archive is null crashes; a node whose archive was destroyed is a use
\* after free: the call crashes, or answers "has the file" (the member it
\* hands out is garbage), or answers "has not" and the walk goes on.
RECURSIVE Walk(_, _, _, _)
Walk(s, flat, i, n) ==
    IF i > Len(flat) THEN {NotFound}
    ELSE LET nd == flat[i] IN
         IF nd.kind = "global"
         THEN IF DirFilesNamed(s, n) # {}
              THEN {Hit(CHOOSE f \in DirFilesNamed(s, n) : TRUE, Null)}
              ELSE Walk(s, flat, i + 1, n)
         ELSE IF nd.arc = Null THEN {Crash}
         ELSE IF nd.arc \in s.destroyed
              THEN {Crash, Garbage(nd.arc)} \cup Walk(s, flat, i + 1, n)
         ELSE IF MembersNamed(s.arcFile[nd.arc], n) # {}
              THEN {Hit(CHOOSE f \in MembersNamed(s.arcFile[nd.arc], n) : TRUE, nd.arc)}
              ELSE Walk(s, flat, i + 1, n)

GetMember(s, n) == Walk(s, Flatten(s, 1), 1, n)

----------------------------------------------------------------------------
(* The loaders (Resource::initializeLoaders) and Resource::loadArchive.    *)

Loaders == <<"PAK", "INS", "TLK">>

\* The name ends in ".PAK", whatever the case of its letters.
HasSuffixPAK(name) ==
    ToUpper(name) \in {"GENERAL.PAK", "MISC.PAK", "EYE.PAK", "OTHER.PAK", "NONE.PAK",
                       "INTROGEN.PAK", "EMC.PAK", "JMC.PAK", "TWMUSIC.PAK", "BAD.PAK"}

\* The name ends in ".APK", whatever the case of its letters.
HasSuffixAPK(name) == ToUpper(name) \in {"CAVE.APK"}

\* The name ends in ".TLK", whatever the case of its letters.
HasSuffixTLK(name) == ToUpper(name) \in {"SPEECH.TLK"}

\* ResArchiveLoader::checkFilename: by the suffix of the uppercased name.  The
\* PAK loader takes the .TLK names as well, the TLK loader takes them alone.
CheckFilename(l, name) ==
    CASE l = "PAK" -> HasSuffixPAK(name) \/ HasSuffixAPK(name) \/ HasSuffixTLK(name)
      [] l = "INS" -> ToUpper(name) = "WESTWOOD.001"
      [] l = "TLK" -> HasSuffixTLK(name)
      [] OTHER -> FALSE

\* ResArchiveLoader::isLoadable: by the content of the file.
IsLoadable(l, pf) ==
    \/ World[pf].fmt = l
    \/ (World[pf].fmt = "PAK+TLK" /\ l \in {"PAK", "TLK"})

\* ResArchiveLoader::load of loader l returns null on the file pf.
LoadFails(l, pf) == World[pf].fmt = "PAK+TLK" /\ l = "PAK"

\* stream->seek(offset, SEEK_SET): the position of the stream afterwards.
SeekSet(pos, offset) == offset

\* What a loader was asked, and where the stream stood when it was asked.
LoaderEvent(e, i, pos) == [ev |-> e, loader |-> i, pos |-> pos]

\* Mutant of LoaderLoop: the stream is not rewound after a loader declined.
RECURSIVE LoaderLoop_NoRewind(_, _, _, _, _, _)
LoaderLoop_NoRewind(name, pf, leave, i, pos, log) ==
    IF i > Len(Loaders) THEN [loader |-> 0, loaded |-> FALSE, log |-> log]
    ELSE IF CheckFilename(Loaders[i], name)
    THEN LET asked == Append(log, LoaderEvent("isLoadable", i, pos)) IN
         IF IsLoadable(Loaders[i], pf)
         THEN [loader |-> i, loaded |-> ~LoadFails(Loaders[i], pf),
               log |-> Append(asked, LoaderEvent("load", i, SeekSet(leave[i], 0)))]
         ELSE LoaderLoop_NoRewind(name, pf, leave, i + 1, leave[i], asked)
    ELSE LoaderLoop_NoRewind(name, pf, leave, i + 1, pos, log)

\* Mutant of LoaderLoop: when load returns null the loaders behind are asked.
RECURSIVE LoaderLoop_TriesNext(_, _, _, _, _, _)
LoaderLoop_TriesNext(name, pf, leave, i, pos, log) ==
    IF i > Len(Loaders) THEN [loader |-> 0, loaded |-> FALSE, log |-> log]
    ELSE IF CheckFilename(Loaders[i], name)
    THEN LET asked == Append(log, LoaderEvent("isLoadable", i, pos)) IN
         IF IsLoadable(Loaders[i], pf)
         THEN LET tried == Append(asked, LoaderEvent("load", i, SeekSet(leave[i], 0))) IN
              IF LoadFails(Loaders[i], pf)
              THEN LoaderLoop_TriesNext(name, pf, leave, i + 1, 0, tried)
              ELSE [loader |-> i, loaded |-> TRUE, log |-> tried]
         ELSE LoaderLoop_TriesNext(name, pf, leave, i + 1, SeekSet(leave[i], 0), asked)
    ELSE LoaderLoop_TriesNext(name, pf, leave, i + 1, pos, log)

\* Lines 409-419, from loader i on, the stream at position pos: the loader
\* whose load was called (0 when there is none), whether it made an archive,
\* and the calls of isLoadable and load with the position of the stream at
\* each.  leave[i] is where isLoadable of loader i leaves the stream.
RECURSIVE LoaderLoop(_, _, _, _, _, _)
LoaderLoop(name, pf, leave, i, pos, log) ==
    IF i > Len(Loaders) THEN [loader |-> 0, loaded |-> FALSE, log |-> log]
    ELSE IF CheckFilename(Loaders[i], name)
    THEN LET asked == Append(log, LoaderEvent("isLoadable", i, pos)) IN
         IF IsLoadable(Loaders[i], pf)
         THEN [loader |-> i, loaded |-> ~LoadFails(Loaders[i], pf),
               log |-> Append(asked, LoaderEvent("load", i, SeekSet(leave[i], 0)))]
         ELSE LoaderLoop(name, pf, leave, i + 1, SeekSet(leave[i], 0), asked)
    ELSE LoaderLoop(name, pf, leave, i + 1, pos, log)

\* Lines 409-419: the loader, from i on, whose load made the archive; 0 when
\* archive is null behind the loop.
Dispatch(name, pf, i) ==
    LET r == LoaderLoop(name, pf, [j \in 1..Len(Loaders) |-> 0], i, 0, <<>>)
    IN IF r.loaded THEN r.loader ELSE 0

\* A loader's load ran for key name on file pf and produced a new Archive.
Parsed(s, name, pf) ==
    [s EXCEPT !.arcFile = (Arc(name, s.parses[name] + 1) :> pf) @@ @,
              !.parses[name] = @ + 1]

\* How often a loader's load ran on the physical file pf.
ParsesOfFile(s, pf) == Cardinality({a \in DOMAIN s.arcFile : s.arcFile[a] = pf})

\* How often the cache entry of key name was erased.
Removals(s, name) == Cardinality({a \in s.destroyed : a.key = name})

\* Mutant of CacheInsert: the archive is not stored.
CacheInsert_Lost(s, name, id) == s

\* _archiveCache[name] = archive
CacheInsert(s, name, id) ==
    [s EXCEPT !.cache = (name :> id) @@ [k \in DOMAIN @ \ {name} |-> @[k]]]

Returns(s, name, id) == [s EXCEPT !.returned[name] = id]

\* Mutant of LoadArchive: the cache is not consulted.
LoadArchive_NoLookup(s, name, m) ==
    IF m.kind # "hit" THEN [s |-> s, ret |-> Null]
    ELSE IF Dispatch(name, m.pf, 1) = 0 THEN [s |-> s, ret |-> Null]
    ELSE LET id == Arc(name, s.parses[name] + 1)
         IN [s |-> Returns(CacheInsert(Parsed(s, name, m.pf), name, id), name, id),
             ret |-> id]

\* Mutant of LoadArchive: the null result of the loaders is stored.
LoadArchive_CachesNull(s, name, m) ==
    IF name \in DOMAIN s.cache
    THEN [s |-> Returns(s, name, s.cache[name]), ret |-> s.cache[name]]
    ELSE IF m.kind # "hit" THEN [s |-> s, ret |-> Null]
    ELSE IF Dispatch(name, m.pf, 1) = 0
    THEN [s |-> CacheInsert(s, name, Null), ret |-> Null]
    ELSE LET id == Arc(name, s.parses[name] + 1)
         IN [s |-> Returns(CacheInsert(Parsed(s, name, m.pf), name, id), name, id),
             ret |-> id]

\* Resource::loadArchive(name, member): member m is a result of GetMember
\* (a hit, or the garbage of a destroyed archive, whose stream is null).
LoadArchive(s, name, m) ==
    IF name \in DOMAIN s.cache
    THEN [s |-> Returns(s, name, s.cache[name]), ret |-> s.cache[name]]
    ELSE IF m.kind # "hit" THEN [s |-> s, ret |-> Null]
    ELSE LET s1 == CreateStream(s) IN
         IF Dispatch(name, m.pf, 1) = 0 THEN [s |-> DeleteStream(s1), ret |-> Null]
         ELSE LET id == Arc(name, s1.parses[name] + 1)
                  s2 == DeleteStream(Parsed(s1, name, m.pf))
              IN [s |-> Returns(CacheInsert(s2, name, id), name, id), ret |-> id]

----------------------------------------------------------------------------
(* The package operations.  Each yields the set of its possible outcomes   *)
(* [s |-> state after, ret |-> value returned].                            *)

\* Mutant of LoadPakFileMember: the layers are not asked first.
LoadPakFileMember_NoLayerCheck(s, name, m) ==
    LET nameFixed == ToUpper(name)
        r == LoadArchive(s, nameFixed, m)
    IN IF r.ret = Null THEN [s |-> r.s, ret |-> FALSE]
       ELSE [s |-> [r.s EXCEPT !.archiveFiles = SSAdd(@, Node(nameFixed, "arc", r.ret, 0))],
             ret |-> TRUE]

\* Mutant of LoadPakFileMember: every archive is attached above the ones
\* attached before.
LoadPakFileMember_NewestFirst(s, name, m) ==
    LET nameFixed == ToUpper(name) IN
    IF SSHasArchive(s.archiveFiles, nameFixed) \/ SSHasArchive(s.protectedFiles, nameFixed)
    THEN [s |-> s, ret |-> TRUE]
    ELSE LET r == LoadArchive(s, nameFixed, m) IN
         IF r.ret = Null THEN [s |-> r.s, ret |-> FALSE]
         ELSE [s |-> [r.s EXCEPT !.archiveFiles =
                         SSAdd(@, Node(nameFixed, "arc", r.ret, Len(@) + 1))],
               ret |-> TRUE]

\* Resource::loadPakFile(const Common::String &name, ArchiveMemberPtr file)
LoadPakFileMember(s, name, m) ==
    LET nameFixed == ToUpper(name) IN
    IF SSHasArchive(s.archiveFiles, nameFixed) \/ SSHasArchive(s.protectedFiles, nameFixed)
    THEN [s |-> s, ret |-> TRUE]
    ELSE LET r == LoadArchive(s, nameFixed, m) IN
         IF r.ret = Null THEN [s |-> r.s, ret |-> FALSE]
         ELSE [s |-> [r.s EXCEPT !.archiveFiles = SSAdd(@, Node(nameFixed, "arc", r.ret, 0))],
               ret |-> TRUE]

\* Resource::loadPakFile(const Common::Path &filename)
LoadPakFile(s, filename) ==
    LET filenameFixed == ToUpper(filename) IN
    { CASE m.kind = "crash" -> [s |-> Crashed(s), ret |-> FALSE]
        [] m.kind = "none" -> [s |-> s, ret |-> FALSE]
        [] OTHER -> LoadPakFileMember(s, filenameFixed, m)
      : m \in GetMember(s, filenameFixed) }

\* Mutant of CacheErase: the entry is erased, the archive is not deleted.
CacheErase_Leak(s, name) ==
    [s EXCEPT !.cache = [k \in DOMAIN @ \ {name} |-> @[k]],
              !.returned[name] = Null]

\* delete iter->_value; _archiveCache.erase(nameFixed)
CacheErase(s, name) ==
    [s EXCEPT !.destroyed = @ \cup {s.cache[name]},
              !.cache = [k \in DOMAIN @ \ {name} |-> @[k]],
              !.returned[name] = Null]

\* Mutant of UnloadPakFile: the protected layer is not spared.
UnloadPakFile_AlsoProtected(s, name, remFromCache) ==
    LET nameFixed == ToUpper(name)
        s0 == [s EXCEPT !.protectedFiles = SSRemove(@, nameFixed)]
    IN IF SSHasArchive(s0.archiveFiles, nameFixed)
       THEN LET s1 == [s0 EXCEPT !.archiveFiles = SSRemove(@, nameFixed)] IN
            IF remFromCache /\ nameFixed \in DOMAIN s1.cache
            THEN CacheErase(s1, nameFixed)
            ELSE s1
       ELSE s0

\* Mutant of UnloadPakFile: remFromCache is not looked at, nothing is erased.
UnloadPakFile_NeverErases(s, name, remFromCache) ==
    LET nameFixed == ToUpper(name) IN
    IF SSHasArchive(s.archiveFiles, nameFixed)
    THEN [s EXCEPT !.archiveFiles = SSRemove(@, nameFixed)]
    ELSE s

\* Mutant of UnloadPakFile: remFromCache is not looked at, the entry is erased.
UnloadPakFile_AlwaysErases(s, name, remFromCache) ==
    LET nameFixed == ToUpper(name) IN
    IF SSHasArchive(s.archiveFiles, nameFixed)
    THEN LET s1 == [s EXCEPT !.archiveFiles = SSRemove(@, nameFixed)] IN
         IF nameFixed \in DOMAIN s1.cache THEN CacheErase(s1, nameFixed) ELSE s1
    ELSE s

\* Mutant of UnloadPakFile: without remFromCache the name stays attached.
UnloadPakFile_KeepsAttached(s, name, remFromCache) ==
    LET nameFixed == ToUpper(name) IN
    IF remFromCache /\ SSHasArchive(s.archiveFiles, nameFixed)
    THEN LET s1 == [s EXCEPT !.archiveFiles = SSRemove(@, nameFixed)] IN
         IF nameFixed \in DOMAIN s1.cache THEN CacheErase(s1, nameFixed) ELSE s1
    ELSE s

\* Resource::unloadPakFile
UnloadPakFile(s, name, remFromCache) ==
    LET nameFixed == ToUpper(name) IN
    IF SSHasArchive(s.archiveFiles, nameFixed)
    THEN LET s1 == [s EXCEPT !.archiveFiles = SSRemove(@, nameFixed)] IN
         IF remFromCache /\ nameFixed \in DOMAIN s1.cache
         THEN CacheErase(s1, nameFixed)
         ELSE s1
    ELSE s

\* Resource::unloadAllPakFiles
UnloadAllPakFiles(s) == [s EXCEPT !.archiveFiles = <<>>, !.protectedFiles = <<>>]

\* Mutant of LoadProtectedFiles: a package no loader accepts is skipped.
RECURSIVE LoadProtectedFiles_SkipsUnloadable(_, _, _)
LoadProtectedFiles_SkipsUnloadable(s, list, i) ==
    IF i > Len(list) THEN {[s |-> s, ret |-> TRUE]}
    ELSE UNION {
        CASE m.kind = "crash" -> {[s |-> Crashed(s), ret |-> FALSE]}
          [] m.kind = "none" -> {[s |-> Fatal(s), ret |-> FALSE]}
          [] OTHER ->
             LET r == LoadArchive(s, list[i], m) IN
             IF r.ret = Null THEN LoadProtectedFiles_SkipsUnloadable(r.s, list, i + 1)
             ELSE LoadProtectedFiles_SkipsUnloadable(
                    [r.s EXCEPT !.protectedFiles = SSAdd(@, Node(list[i], "arc", r.ret, 0))],
                    list, i + 1)
        : m \in GetMember(s, list[i]) }

\* Resource::loadProtectedFiles, from entry i of the list on.
RECURSIVE LoadProtectedFiles(_, _, _)
LoadProtectedFiles(s, list, i) ==
    IF i > Len(list) THEN {[s |-> s, ret |-> TRUE]}
    ELSE UNION {
        CASE m.kind = "crash" -> {[s |-> Crashed(s), ret |-> FALSE]}
          [] m.kind = "none" -> {[s |-> Fatal(s), ret |-> FALSE]}
          [] OTHER ->
             LET r == LoadArchive(s, list[i], m) IN
             IF r.ret = Null THEN {[s |-> Fatal(r.s), ret |-> FALSE]}
             ELSE LoadProtectedFiles(
                    [r.s EXCEPT !.protectedFiles = SSAdd(@, Node(list[i], "arc", r.ret, 0))],
                    list, i + 1)
        : m \in GetMember(s, list[i]) }

\* Resource::loadFileList(const char *const *filelist, uint32 numFiles):
\* entries numFiles-1 down to 0, that is i down to 1.
RECURSIVE LoadFileList(_, _, _)
LoadFileList(s, filelist, i) ==
    IF i = 0 THEN {[s |-> s, ret |-> TRUE]}
    ELSE UNION {
        IF r.s.status # "running" THEN {r}
        ELSE IF ~r.ret THEN {[s |-> Fatal(r.s), ret |-> FALSE]}
        ELSE LoadFileList(r.s, filelist, i - 1)
        : r \in LoadPakFile(s, filelist[i]) }

----------------------------------------------------------------------------
(* Resource::reset and what it calls.                                      *)

\* Resource::loadInstallerArchive("WESTWOOD", ext, offset)
LoadInstallerArchive(s, name) ==
    IF name \in DOMAIN s.cache
    THEN [s |-> Returns(s, name, s.cache[name]), ret |-> s.cache[name]]
    ELSE IF ~s.disk.westwood THEN [s |-> s, ret |-> Null]
    ELSE LET id == Arc(name, s.parses[name] + 1)
         IN [s |-> Returns(CacheInsert(Parsed(s, name, "ins"), name, id), name, id),
             ret |-> id]

\* Resource::loadStuffItArchive(file, canonicalName)
LoadStuffItArchive(s, canonicalName) ==
    IF canonicalName \in DOMAIN s.cache
    THEN [s |-> Returns(s, canonicalName, s.cache[canonicalName]),
          ret |-> s.cache[canonicalName]]
    ELSE LET id == Arc(canonicalName, s.parses[canonicalName] + 1)
         IN [s |-> Returns(CacheInsert(Parsed(s, canonicalName, "macIns"),
                                       canonicalName, id), canonicalName, id),
             ret |-> id]

\* Resource::loadStuffItArchive(stream, canonicalName, debugName): the loader
\* gets the stream unless the cache has the archive.
LoadStuffItArchiveStream(s, stream, canonicalName) ==
    IF canonicalName \in DOMAIN s.cache
    THEN [s |-> Returns(DeleteStream(s), canonicalName, s.cache[canonicalName]),
          ret |-> s.cache[canonicalName]]
    ELSE LET id == Arc(canonicalName, s.parses[canonicalName] + 1)
             s1 == GiveStream([s EXCEPT !.handed = stream])
         IN [s |-> Returns(CacheInsert(Parsed(s1, canonicalName, "macIns"),
                                       canonicalName, id), canonicalName, id),
             ret |-> id]

\* The header of a part of the split installer, in bytes.
HeaderSize == 100

\* The bytes of part i of the split installer, size of them: each byte is
\* named by its part and its offset.
PartBytes(i, size) == [k \in 1..size |-> [part |-> i, off |-> k - 1]]

\* Mutant of SubStream: the view begins one byte early.
SubStream_OneEarly(data, begin, end) == SubSeq(data, begin, end)

\* Common::SeekableSubReadStream(stream, begin, end): the bytes at the offsets
\* begin to end - 1.
SubStream(data, begin, end) == SubSeq(data, begin + 1, end)

\* Mutant of OpenParts: the size of a part is not looked at.
RECURSIVE OpenParts_NoSizeCheck(_, _, _)
OpenParts_NoSizeCheck(sizes, i, parts) ==
    IF i > 5 THEN [ok |-> TRUE, stream |-> parts, open |-> 5]
    ELSE IF sizes[i] < 0 THEN [ok |-> FALSE, stream |-> <<>>, open |-> i - 1]
    ELSE OpenParts_NoSizeCheck(sizes, i + 1,
            parts \o SubStream(PartBytes(i, sizes[i]), HeaderSize, sizes[i]))

\* Lines 48-58: parts i to 5 are opened and checked, and their payloads put
\* behind parts (Common::ConcatReadStream reads them one after the other);
\* not ok when error() was called.  open: the streams of parts that are open.
RECURSIVE OpenParts(_, _, _)
OpenParts(sizes, i, parts) ==
    IF i > 5 THEN [ok |-> TRUE, stream |-> parts, open |-> 5]
    ELSE IF sizes[i] < 0 THEN [ok |-> FALSE, stream |-> <<>>, open |-> i - 1]
    ELSE IF sizes[i] <= HeaderSize THEN [ok |-> FALSE, stream |-> <<>>, open |-> i]
    ELSE OpenParts(sizes, i + 1,
            parts \o SubStream(PartBytes(i, sizes[i]), HeaderSize, sizes[i]))

\* Resource::loadKyra1MacInstaller: the installer in one file, or in five
\* parts, or none.
LoadKyra1MacInstaller(s) ==
    IF s.disk.single
    THEN LET r == LoadStuffItArchive(s, "Install Legend of Kyrandia") IN
         IF r.ret = Null THEN [s |-> Fatal(r.s), ret |-> Null] ELSE r
    ELSE IF s.disk.parts # <<>>
    THEN LET o == OpenParts(s.disk.parts, 1, <<>>) IN
         IF ~o.ok THEN [s |-> Fatal([s EXCEPT !.streams = @ + o.open]), ret |-> Null]
         ELSE \* the ConcatReadStream has the streams of the parts
              LoadStuffItArchiveStream(CreateStream(s), o.stream,
                                       "Install Legend of Kyrandia")
    ELSE [s |-> s, ret |-> Null]

\* Archive::listMatchingMembers(members, "*.PAK") of a set of files.
PakMembers(fs) == SelectSeq(ListOrder, LAMBDA f : f \in fs /\ HasSuffixPAK(World[f].name))

\* Lines 110-114: the packages inside the Macintosh installer.
RECURSIVE MacMembers(_, _, _, _)
MacMembers(s, arc, members, i) ==
    IF i > Len(members) THEN s
    ELSE LET name == World[members[i]].name
             r == LoadArchive(s, name, Hit(members[i], arc))
         IN MacMembers([r.s EXCEPT !.files = SSAdd(@, Node(name, "arc", r.ret, 0))],
                       arc, members, i + 1)

\* Archive::listMatchingMembers(members, "*.APK") of a set of files.
ApkMembers(fs) == SelectSeq(ListOrder, LAMBDA f : f \in fs /\ HasSuffixAPK(World[f].name))

\* Lines 137-138: the *.PAK and the *.APK of the game directory.
DirMembers(s) ==
    PakMembers(GameDir \cup s.disk.extra) \o ApkMembers(GameDir \cup s.disk.extra)

\* Mutant of ScanDirectory: the names are compared as the directory has them.
RECURSIVE ScanDirectory_AsListed(_, _, _, _)
ScanDirectory_AsListed(s, vm, members, i) ==
    IF i > Len(members) THEN s
    ELSE LET getName == World[members[i]].name
             name == ToUpper(getName)
         IN IF getName = "TWMUSIC.PAK" \/ getName = "EYE.PAK"
            THEN ScanDirectory_AsListed(s, vm, members, i + 1)
            ELSE IF getName = (IF vm.lang = "EN_ANY" THEN "JMC.PAK" ELSE "EMC.PAK")
            THEN ScanDirectory_AsListed(s, vm, members, i + 1)
            ELSE LET r == LoadArchive(s, getName, Hit(members[i], Null)) IN
                 IF r.ret = Null THEN Fatal(r.s)
                 ELSE LET highPrio == vm.game = "GI_EOB1" /\ vm.lang = "ES_ESP"
                                      /\ MembersNamed(r.s.arcFile[r.ret], "ITEM.DAT") # {}
                      IN ScanDirectory_AsListed(
                           [r.s EXCEPT !.files =
                               SSAdd(@, Node(name, "arc", r.ret, IF highPrio THEN 4 ELSE 0))],
                           vm, members, i + 1)

\* Lines 146-169: the packages of the game directory.
RECURSIVE ScanDirectory(_, _, _, _)
ScanDirectory(s, vm, members, i) ==
    IF i > Len(members) THEN s
    ELSE LET getName == World[members[i]].name
             name == ToUpper(getName)
         IN IF name = "TWMUSIC.PAK" \/ name = "EYE.PAK"
            THEN ScanDirectory(s, vm, members, i + 1)
            ELSE IF name = (IF vm.lang = "EN_ANY" THEN "JMC.PAK" ELSE "EMC.PAK")
            THEN ScanDirectory(s, vm, members, i + 1)
            ELSE LET r == LoadArchive(s, getName, Hit(members[i], Null)) IN
                 IF r.ret = Null THEN Fatal(r.s)
                 ELSE LET highPrio == vm.game = "GI_EOB1" /\ vm.lang = "ES_ESP"
                                      /\ MembersNamed(r.s.arcFile[r.ret], "ITEM.DAT") # {}
                      IN ScanDirectory(
                           [r.s EXCEPT !.files =
                               SSAdd(@, Node(name, "arc", r.ret, IF highPrio THEN 4 ELSE 0))],
                           vm, members, i + 1)

\* One call after another: g applied to the state of every outcome of rs
\* that is still running.
Then(rs, g(_)) == UNION { IF r.s.status = "running" THEN g(r.s) ELSE {r} : r \in rs }

\* Mutant of FileListEntries: a package that does not exist is passed over
\* in every game.
RECURSIVE FileListEntries_SkipsMissing(_, _, _)
FileListEntries_SkipsMissing(s, vm, i) ==
    IF i > Len(s.disk.fdt) THEN {[s |-> DeleteStream(s), ret |-> TRUE]}
    ELSE LET filename == ToUpper(s.disk.fdt[i]) IN
         IF ~HasSuffixPAK(filename) THEN FileListEntries_SkipsMissing(s, vm, i + 1)
         ELSE UNION {
             CASE m.kind = "crash" -> {[s |-> Crashed(s), ret |-> FALSE]}
               [] m.kind = "none" -> FileListEntries_SkipsMissing(s, vm, i + 1)
               [] OTHER ->
                  UNION { IF r.s.status # "running" THEN {r}
                          ELSE IF ~r.ret
                          THEN {[s |-> Fatal(DeleteStream(r.s)), ret |-> FALSE]}
                          ELSE FileListEntries_SkipsMissing(r.s, vm, i + 1)
                          : r \in LoadPakFile(s, filename) }
             : m \in GetMember(s, filename) }

\* Resource::loadFileList(const Common::Path &filedata), entries from i on.
RECURSIVE FileListEntries(_, _, _)
FileListEntries(s, vm, i) ==
    IF i > Len(s.disk.fdt) THEN {[s |-> DeleteStream(s), ret |-> TRUE]}
    ELSE LET filename == ToUpper(s.disk.fdt[i]) IN
         IF ~HasSuffixPAK(filename) THEN FileListEntries(s, vm, i + 1)
         ELSE UNION {
             CASE m.kind = "crash" -> {[s |-> Crashed(s), ret |-> FALSE]}
               [] m.kind = "none" /\ vm.isDemo -> FileListEntries(s, vm, i + 1)
               [] OTHER ->
                  UNION { IF r.s.status # "running" THEN {r}
                          ELSE IF ~r.ret
                          THEN {[s |-> Fatal(DeleteStream(r.s)), ret |-> FALSE]}
                          ELSE FileListEntries(r.s, vm, i + 1)
                          : r \in LoadPakFile(s, filename) }
             : m \in GetMember(s, filename) }

LoadFileListFile(s, vm, filedata) ==
    UNION { CASE m.kind = "crash" -> {[s |-> Crashed(s), ret |-> FALSE]}
              [] m.kind = "hit" -> FileListEntries(CreateStream(s), vm, 1)
              [] OTHER -> {[s |-> s, ret |-> FALSE]}
            : m \in GetMember(s, filedata) }

Kyra1TalkieList == <<"MISC.PAK">>
LolList == <<"GENERAL.PAK">>

Done(s) == {[s |-> s, ret |-> TRUE]}

\* Lines 101-114
ResetKyra1Mac(s) ==
    LET r == LoadKyra1MacInstaller(s) IN
    IF r.s.status # "running" THEN {[s |-> r.s, ret |-> FALSE]}
    ELSE IF r.ret = Null THEN {[s |-> Fatal(r.s), ret |-> FALSE]}
    ELSE LET s1 == [r.s EXCEPT !.files = SSAdd(@, Node("installer", "arc", r.ret, 0))]
         IN Done(MacMembers(s1, r.ret, PakMembers(World[s1.arcFile[r.ret]].contents), 1))

\* Lines 115-170
ResetKyra1Eob1(s, vm) ==
    IF vm.isDemo /\ ~vm.isTalkie THEN Done(s)
    ELSE IF ~vm.isDemo /\ vm.isTalkie THEN LoadProtectedFiles(s, Kyra1TalkieList, 1)
    ELSE LET s1 == ScanDirectory(s, vm, DirMembers(s), 1)
         IN {[s |-> s1, ret |-> s1.status = "running"]}

\* Lines 172-173 and 188-189
AddInstaller(s, vm) ==
    IF vm.useInstallerPackage
    THEN LET r == LoadInstallerArchive(s, "WESTWOOD")
         IN [r.s EXCEPT !.files = SSAdd(@, Node("installer", "arc", r.ret, 2))]
    ELSE s

\* Lines 171-181
ResetKyra2(s, vm) ==
    LET s1 == AddInstaller(s, vm) IN
    IF vm.isDemo /\ ~vm.isTalkie
    THEN Then(LoadPakFile(s1, "GENERAL.PAK"), Done)
    ELSE Then(Then(LoadPakFile(s1, "INTROGEN.PAK"),
                   LAMBDA x : LoadPakFile(x, "OTHER.PAK")), Done)

\* Lines 182-186
ResetKyra3(s, vm) ==
    Then(LoadPakFile(s, "WESTWOOD.001"),
         LAMBDA x : { IF r.s.status = "running" /\ ~r.ret
                      THEN [s |-> Fatal(r.s), ret |-> FALSE] ELSE r
                      : r \in LoadFileListFile(x, vm, "FILEDATA.FDT") })

\* Lines 187-197
ResetLol(s, vm) ==
    LET s1 == AddInstaller(s, vm) IN
    IF ~vm.isTalkie /\ ~vm.isDemo THEN LoadProtectedFiles(s1, LolList, 1) ELSE Done(s1)

\* reset as a build without NORETURN would have it if error() came back: the
\* unknown game id is answered with false.
Reset_UnknownReturnsFalse(s, vm) ==
    LET s0 == UnloadAllPakFiles(s) IN
    IF vm.game = "GI_KYRA1" /\ vm.platform = "Macintosh" /\ vm.useInstallerPackage
    THEN ResetKyra1Mac(s0)
    ELSE IF vm.game = "GI_KYRA1" \/ vm.game = "GI_EOB1" THEN ResetKyra1Eob1(s0, vm)
    ELSE IF vm.game = "GI_KYRA2" THEN ResetKyra2(s0, vm)
    ELSE IF vm.game = "GI_KYRA3" THEN ResetKyra3(s0, vm)
    ELSE IF vm.game = "GI_LOL" THEN ResetLol(s0, vm)
    ELSE IF vm.game # "GI_EOB2" THEN {[s |-> s0, ret |-> FALSE]}
    ELSE Done(s0)

\* Resource::reset
Reset(s, vm) ==
    LET s0 == UnloadAllPakFiles(s) IN
    IF ~GamePathValid THEN {[s |-> Fatal(s0), ret |-> FALSE]}
    ELSE IF vm.game = "GI_KYRA1" /\ vm.platform = "Macintosh" /\ vm.useInstallerPackage
    THEN ResetKyra1Mac(s0)
    ELSE IF vm.game = "GI_KYRA1" \/ vm.game = "GI_EOB1" THEN ResetKyra1Eob1(s0, vm)
    ELSE IF vm.game = "GI_KYRA2" THEN ResetKyra2(s0, vm)
    ELSE IF vm.game = "GI_KYRA3" THEN ResetKyra3(s0, vm)
    ELSE IF vm.game = "GI_LOL" THEN ResetLol(s0, vm)
    ELSE IF vm.game # "GI_EOB2" THEN {[s |-> Fatal(s0), ret |-> FALSE]}
    ELSE Done(s0)

\* exists without the branch of errorOutOnFail.
Exists_NeverFatal(s, file, errorOutOnFail) ==
    { CASE m.kind = "crash" -> [s |-> Crashed(s), ret |-> FALSE]
        [] m.kind = "none" -> [s |-> s, ret |-> FALSE]
        [] OTHER -> [s |-> s, ret |-> TRUE]
      : m \in GetMember(s, file) }

\* Resource::exists(file, errorOutOnFail)
Exists(s, file, errorOutOnFail) ==
    { CASE m.kind = "crash" -> [s |-> Crashed(s), ret |-> FALSE]
        [] m.kind = "none" -> [s |-> IF errorOutOnFail THEN Fatal(s) ELSE s, ret |-> FALSE]
        [] OTHER -> [s |-> s, ret |-> TRUE]
      : m \in GetMember(s, file) }

\* Resource::isInPakList
IsInPakList(s, name) ==
    SSHasArchive(s.archiveFiles, ToUpper(name)) \/ SSHasArchive(s.protectedFiles, ToUpper(name))

\* Mutant of IsInCacheList: the name is looked up as given.
IsInCacheList_AsGiven(s, name) == name \in DOMAIN s.cache

\* Resource::isInCacheList
IsInCacheList(s, name) == ToUpper(name) \in DOMAIN s.cache

----------------------------------------------------------------------------
(* The stream operations.  A uint32 is a number of WordBits bits, and the   *)
(* caller's buffer has room for every maxSize and one byte more.            *)

\* The width of uint32 and int32.
WordBits == 4

WordMod == 2 ^ WordBits

\* (int32)x of a uint32 x
ToInt32(x) == IF x >= WordMod \div 2 THEN x - WordMod ELSE x

\* The size of a physical file, in bytes.
FileSize(pf) ==
    CASE pf = "dGeneral" -> 9
      [] pf = "dMisc" -> 4
      [] pf = "dEye" -> 0
      [] pf = "fFont" -> 3
      [] pf = "fItem" -> 1
      [] pf = "dFdt" -> 6
      [] OTHER -> 2

\* The bytes of a physical file: the byte at offset k - 1 is k.
FileBytes(pf) == [k \in 1..FileSize(pf) |-> k]

\* What the caller's buffer holds before the call, in every byte.
Junk == 255

\* The caller's memory from buf on, WordMod bytes of it.
JunkBuf == [i \in 1..WordMod |-> Junk]

Min(a, b) == IF a <= b THEN a ELSE b

\* Mutant of Memset: nothing is written.
Memset_Skipped(buf, v, n) == buf

\* memset(buf, v, n)
Memset(buf, v, n) == [i \in 1..Len(buf) |-> IF i <= n THEN v ELSE buf[i]]

\* stream->read(buf, n) on a stream of the bytes data, standing at pos: as
\* many bytes as the stream still has, n at most.
StreamRead(buf, data, pos, n) ==
    [i \in 1..Len(buf) |-> IF i <= Min(n, Len(data) - pos) THEN data[pos + i] ELSE buf[i]]

\* Mutant of LoadFileToBuf: the buffer is cleared before the stream is looked
\* at.
LoadFileToBuf_ClearsFirst(s, file, buf, maxSize) ==
    { CASE m.kind = "crash" -> [s |-> Crashed(s), ret |-> FALSE, buf |-> buf, pf |-> ""]
        [] m.kind = "hit" ->
           LET size == FileSize(m.pf)
               count == IF ToInt32(maxSize) <= size THEN maxSize ELSE size
           IN [s |-> DeleteStream(CreateStream(s)), ret |-> TRUE, pf |-> m.pf,
               buf |-> StreamRead(Memset(buf, 0, maxSize), FileBytes(m.pf), 0,
                                  count % WordMod)]
        [] OTHER -> [s |-> s, ret |-> FALSE, buf |-> Memset(buf, 0, maxSize), pf |-> ""]
      : m \in GetMember(s, file) }

\* Resource::loadFileToBuf(file, buf, maxSize): the outcomes, with the memory
\* at buf afterwards and the file the stream was made of.
LoadFileToBuf(s, file, buf, maxSize) ==
    { CASE m.kind = "crash" -> [s |-> Crashed(s), ret |-> FALSE, buf |-> buf, pf |-> ""]
        [] m.kind = "hit" ->
           LET size == FileSize(m.pf)
               count == IF ToInt32(maxSize) <= size THEN maxSize ELSE size
           IN [s |-> DeleteStream(CreateStream(s)), ret |-> TRUE, pf |-> m.pf,
               buf |-> StreamRead(Memset(buf, 0, maxSize), FileBytes(m.pf), 0,
                                  count % WordMod)]
        [] OTHER -> [s |-> s, ret |-> FALSE, buf |-> buf, pf |-> ""]
      : m \in GetMember(s, file) }

\* Resource::createReadStream(file): the file the stream is made of, "" for
\* the null stream.  The stream is the caller's.
CreateReadStream(s, file) ==
    { CASE m.kind = "crash" -> [s |-> Crashed(s), pf |-> ""]
        [] m.kind = "hit" -> [s |-> s, pf |-> m.pf]
        [] OTHER -> [s |-> s, pf |-> ""]
      : m \in GetMember(s, file) }

\* Resource::fileData(file, size): the buffer returned (ret: it is not null)
\* and the caller's variable at size afterwards, which held size0; sizeGiven:
\* size is not null.
FileData(s, file, sizeGiven, size0) ==
    { IF r.s.status # "running"
      THEN [s |-> r.s, ret |-> FALSE, pf |-> "", buf |-> <<>>, size |-> size0]
      ELSE IF r.pf = ""
      THEN [s |-> r.s, ret |-> FALSE, pf |-> "", buf |-> <<>>, size |-> size0]
      ELSE LET s1 == CreateStream(r.s)
               bufferSize == FileSize(r.pf) % WordMod
               buffer == StreamRead([i \in 1..bufferSize |-> Junk], FileBytes(r.pf), 0,
                                    bufferSize)
           IN [s |-> DeleteStream(s1), ret |-> TRUE, pf |-> r.pf, buf |-> buffer,
               size |-> IF sizeGiven THEN bufferSize ELSE size0]
      : r \in CreateReadStream(s, file) }

\* Resource::getFileSize(file)
GetFileSize(s, file) ==
    { IF r.s.status # "running" THEN [s |-> r.s, ret |-> 0, pf |-> ""]
      ELSE IF r.pf = "" THEN [s |-> r.s, ret |-> 0, pf |-> ""]
      ELSE [s |-> DeleteStream(CreateStream(r.s)), ret |-> FileSize(r.pf) % WordMod,
            pf |-> r.pf]
      : r \in CreateReadStream(s, file) }

\* The values of the parameter endianness.
Endianness == {"kPlatformEndianness", "kForceLE", "kForceBE", "other"}

\* Mutant of BigEndianPlatForm: the Amiga alone.
BigEndianPlatForm_AmigaOnly(v) == v.platform = "Amiga"

\* Resource::Resource, line 64: _bigEndianPlatForm
BigEndianPlatForm(v) == v.platform = "Amiga" \/ v.platform = "SegaCD"

\* Resource::createEndianAwareReadStream(file, endianness): null, or the
\* byte order of the wrapper.
CreateEndianAwareReadStream(s, v, file, endianness) ==
    { CASE m.kind = "crash" -> [s |-> Crashed(s), stream |-> "null"]
        [] m.kind = "hit" ->
           [s |-> s,
            stream |-> IF (IF endianness = "kForceBE" THEN TRUE
                           ELSE IF endianness = "kForceLE" THEN FALSE
                           ELSE BigEndianPlatForm(v))
                       THEN "BE" ELSE "LE"]
        [] OTHER -> [s |-> s, stream |-> "null"]
      : m \in GetMember(s, file) }

----------------------------------------------------------------------------
(* The state machine: one Resource object of one game variant, and the     *)
(* calls made on it.                                                       *)

VARIABLES
    archiveCache, archiveFiles, protectedFiles, files,  \* the members of Resource
    arcFile, destroyed,                                 \* the Archive objects
    parses, returned,                                   \* what the loaders and the cache did
    status,                                             \* running, fatal or crashed
    disk, handed,                                       \* the Macintosh installer
    openStreams,                                        \* the streams the facade holds
    vm,                                                 \* the game variant
    call,                                               \* the latest call and its result
    trail,                                              \* the calls that led here, see Trail
    inp,                                                \* the member handed to the loaders
    out,                                                \* what the latest stream call produced
    gameState,                                          \* Toon: inventory and mouse item
    dirtyRects, oldDirtyRects, dirtyAll,                \* Toon: the screen to redraw
    flags,                                              \* Burger: the game flags
    console,                                            \* Burger: what the console printed
    engineCall                                          \* the latest call of these engines

vars == <<archiveCache, archiveFiles, protectedFiles, files, arcFile, destroyed,
          parses, returned, status, disk, handed, openStreams, vm, call, trail, inp,
          out, gameState, dirtyRects, oldDirtyRects, dirtyAll, flags, console,
          engineCall>>

\* The variables of Kyra::Resource and of its callers.
resourceVars == <<archiveCache, archiveFiles, protectedFiles, files, arcFile, destroyed,
                  parses, returned, status, disk, handed, openStreams, vm, call, trail,
                  inp, out>>

\* The variables of the Toon engine, of the Burger console and of their callers.
toonVars == <<gameState, dirtyRects, oldDirtyRects, dirtyAll>>
burgerVars == <<flags, console>>
engineVars == <<toonVars, burgerVars, engineCall>>

\* The slots of the inventory arrays the model keeps.
MaxSlots == 3
Slots == 0..(MaxSlots - 1)
EmptySlots == [i \in Slots |-> 0]

\* The game state of Toon before a game has begun.
NewGameState ==
    [ inventory |-> EmptySlots, numInventoryItems |-> 0,
      confiscatedInventory |-> EmptySlots, numConfiscatedInventoryItems |-> 0,
      mouseState |-> -1, inInventory |-> FALSE ]

\* The flags of the five tests of Burger.
TestFlags == <<"kFirstTestPassed", "kSecondTestPassed", "kThirdTestPassed",
               "kFourthTestPassed", "kFifthTestPassed">>
FlagNames == {TestFlags[i] : i \in 1..Len(TestFlags)}

EngineCalled(op, arg) == [op |-> op, arg |-> arg]

\* The engines have made no call yet.
EnginesIdle ==
    /\ gameState = NewGameState
    /\ dirtyRects = <<>> /\ oldDirtyRects = <<>> /\ dirtyAll = FALSE
    /\ flags = [f \in FlagNames |-> 0]
    /\ console = <<>>
    /\ engineCall = EngineCalled("none", <<>>)

Cur ==
    [ cache |-> archiveCache, archiveFiles |-> archiveFiles,
      protectedFiles |-> protectedFiles, files |-> files,
      arcFile |-> arcFile, destroyed |-> destroyed,
      parses |-> parses, returned |-> returned, status |-> status,
      disk |-> disk, handed |-> handed, streams |-> openStreams ]

Becomes(s) ==
    /\ Cardinality(DOMAIN s.arcFile) <= MaxArchives
    /\ archiveCache' = s.cache
    /\ archiveFiles' = s.archiveFiles
    /\ protectedFiles' = s.protectedFiles
    /\ files' = s.files
    /\ arcFile' = s.arcFile
    /\ destroyed' = s.destroyed
    /\ parses' = s.parses
    /\ returned' = s.returned
    /\ status' = s.status
    /\ disk' = s.disk
    /\ handed' = s.handed
    /\ openStreams' = s.streams

Called(op, name, flag, ret) == [op |-> op, name |-> name, flag |-> flag, ret |-> ret]

\* What the latest calls were, as far as the sequences of section 8 go:
\*   phase 1  loadPakFile(name) has just returned true
\*   phase 2  ... and unloadPakFile(name, flag) followed it
\*   phase 3  loadProtectedFiles(list) has just returned
\*   phase 4  ... and unloadPakFile(name, flag), name in the list, followed it
\*   phase 0  anything else
Trail(ph, n, f, l) == [phase |-> ph, name |-> n, flag |-> f, list |-> l]
NoTrail == Trail(0, "", FALSE, <<>>)

InList(n, l) == \E i \in 1..Len(l) : l[i] = n

\* The lists callers pass to loadProtectedFiles and loadFileList.
FileLists == {<<"GENERAL.PAK">>, <<"OTHER.PAK", "MISC.PAK">>, <<"EYE.PAK">>}

\* No member was handed to the loaders; no stream call was made.
NoInp == [name |-> "", pf |-> "", leave |-> <<>>]
NoOut == [stream |-> "none", pf |-> "", arg |-> 0, mode |-> "", buf |-> <<>>, log |-> <<>>]

\* Resource::Resource has run.
Fresh ==
    /\ archiveCache = InitState.cache
    /\ archiveFiles = InitState.archiveFiles
    /\ protectedFiles = InitState.protectedFiles
    /\ files = InitState.files
    /\ arcFile = InitState.arcFile
    /\ destroyed = InitState.destroyed
    /\ parses = InitState.parses
    /\ returned = InitState.returned
    /\ status = InitState.status
    /\ handed = InitState.handed
    /\ openStreams = InitState.streams
    /\ call = Called("new", "", FALSE, TRUE)
    /\ trail = NoTrail
    /\ EnginesIdle

\* The disks a game variant is started on: a variant with an installer
\* package with the package and without.
DisksOf(v) == IF v.useInstallerPackage THEN {SingleInstaller, NoInstaller}
              ELSE {SingleInstaller}

Init ==
    /\ vm \in Variants
    /\ Fresh
    /\ disk \in DisksOf(vm)
    /\ inp = NoInp
    /\ out = NoOut

CallReset ==
    /\ status = "running"
    /\ \E r \in Reset(Cur, vm) :
          /\ Becomes(r.s)
          /\ call' = Called("reset", "", FALSE, r.ret)
    /\ trail' = NoTrail
    /\ UNCHANGED <<engineVars, vm, inp, out>>

CallLoadPakFile ==
    /\ status = "running"
    /\ call.op # "new"
    /\ \E n \in PakNames : \E r \in LoadPakFile(Cur, n) :
          /\ Becomes(r.s)
          /\ call' = Called("loadPakFile", n, FALSE, r.ret)
          /\ trail' = IF r.ret /\ r.s.status = "running"
                      THEN Trail(1, ToUpper(n), FALSE, <<>>)
                      ELSE NoTrail
    /\ UNCHANGED <<engineVars, vm, inp, out>>

CallUnloadPakFile ==
    /\ status = "running"
    /\ call.op # "new"
    /\ \E n \in PakNames, remFromCache \in BOOLEAN :
          /\ Becomes(UnloadPakFile(Cur, n, remFromCache))
          /\ call' = Called("unloadPakFile", n, remFromCache, TRUE)
          /\ trail' = IF trail.phase = 1 /\ trail.name = ToUpper(n)
                      THEN Trail(2, ToUpper(n), remFromCache, <<>>)
                      ELSE IF trail.phase = 3 /\ InList(ToUpper(n), trail.list)
                      THEN Trail(4, ToUpper(n), remFromCache, trail.list)
                      ELSE NoTrail
    /\ UNCHANGED <<engineVars, vm, inp, out>>

CallUnloadAllPakFiles ==
    /\ status = "running"
    /\ call.op # "new"
    /\ Becomes(UnloadAllPakFiles(Cur))
    /\ call' = Called("unloadAllPakFiles", "", FALSE, TRUE)
    /\ trail' = NoTrail
    /\ UNCHANGED <<engineVars, vm, inp, out>>

CallLoadProtectedFiles ==
    /\ status = "running"
    /\ call.op # "new"
    /\ \E list \in FileLists : \E r \in LoadProtectedFiles(Cur, list, 1) :
          /\ Becomes(r.s)
          /\ call' = Called("loadProtectedFiles", list[1], FALSE, r.ret)
          /\ trail' = IF r.ret /\ r.s.status = "running"
                      THEN Trail(3, "", FALSE, list) ELSE NoTrail
    /\ UNCHANGED <<engineVars, vm, inp, out>>

CallLoadFileList ==
    /\ status = "running"
    /\ call.op # "new"
    /\ \E list \in FileLists : \E r \in LoadFileList(Cur, list, Len(list)) :
          /\ Becomes(r.s)
          /\ call' = Called("loadFileList", list[1], FALSE, r.ret)
    /\ trail' = NoTrail
    /\ UNCHANGED <<engineVars, vm, inp, out>>

CallExists ==
    /\ status = "running"
    /\ call.op # "new"
    /\ \E f \in FileNames, e \in BOOLEAN : \E r \in Exists(Cur, f, e) :
          /\ Becomes(r.s)
          /\ call' = Called("exists", f, e, r.ret)
    /\ trail' = NoTrail
    /\ UNCHANGED <<engineVars, vm, inp, out>>

Next ==
    \/ CallReset
    \/ CallLoadPakFile
    \/ CallUnloadPakFile
    \/ CallUnloadAllPakFiles
    \/ CallLoadProtectedFiles
    \/ CallLoadFileList
    \/ CallExists

Spec == Init /\ [][Next]_vars

----------------------------------------------------------------------------
(* The loader loop of loadArchive on its own: a member of any name and any  *)
(* content is handed to the loaders, each isLoadable leaving the stream     *)
(* wherever it stopped reading.                                             *)

\* The furthest position isLoadable leaves the stream at.
MaxPos == 2

\* The names handed to loadArchive.
LoaderNames == {"GENERAL.PAK", "misc.pak", "SPEECH.TLK", "WESTWOOD.001", "FONT.FNT"}

\* The files handed to loadArchive: one of each content.
LoaderFiles == {"dGeneral", "dEye", "dWw001", "dSpeech", "dTrunc"}

InitLoaders ==
    /\ vm = Variant("GI_KYRA3", "DOS", FALSE, FALSE, FALSE, "EN_ANY")
    /\ Fresh
    /\ disk = InitState.disk
    /\ inp \in [name : LoaderNames, pf : LoaderFiles,
                 leave : [1..Len(Loaders) -> 0..MaxPos]]
    /\ out = NoOut

\* loadArchive, lines 403-419, on the member inp.
RunLoaders ==
    /\ out = NoOut
    /\ LET r == LoaderLoop(inp.name, inp.pf, inp.leave, 1, 0, <<>>)
       IN out' = [NoOut EXCEPT !.stream = "loaders", !.arg = r.loader, !.log = r.log,
                               !.mode = IF r.loaded THEN "archive" ELSE "null"]
    /\ UNCHANGED <<archiveCache, archiveFiles, protectedFiles, files, arcFile, destroyed,
                   parses, returned, status, disk, handed, openStreams, vm, call,
                   trail, inp, engineVars>>

NextLoaders == RunLoaders

SpecLoaders == InitLoaders /\ [][NextLoaders]_vars

----------------------------------------------------------------------------
(* The stream operations on a Resource object of any platform, before and   *)
(* after reset.                                                             *)

StreamVariants ==
    { Variant("GI_KYRA1", "DOS", FALSE, FALSE, FALSE, "EN_ANY"),
      Variant("GI_KYRA1", "Amiga", FALSE, FALSE, FALSE, "EN_ANY"),
      Variant("GI_KYRA1", "Macintosh", FALSE, FALSE, FALSE, "EN_ANY"),
      Variant("GI_EOB1",  "SegaCD", FALSE, FALSE, FALSE, "EN_ANY"),
      Variant("GI_EOB2",  "Amiga", FALSE, FALSE, FALSE, "EN_ANY"),
      Variant("GI_EOB2",  "FMTowns", FALSE, FALSE, FALSE, "EN_ANY"),
      Variant("GI_KYRA2", "PC98", FALSE, TRUE, FALSE, "EN_ANY"),
      Variant("GI_LOL",   "PC98", FALSE, FALSE, FALSE, "EN_ANY") }

\* The files the stream operations are called for.
StreamNames == {"GENERAL.PAK", "EYE.PAK", "FONT.FNT", "ITEM.DAT", "FILEDATA.FDT", "NONE.DAT"}

InitStreams ==
    /\ vm \in StreamVariants
    /\ Fresh
    /\ disk = InitState.disk
    /\ inp = NoInp
    /\ out = NoOut

CallLoadFileToBuf ==
    /\ status = "running"
    /\ \E f \in StreamNames, maxSize \in 0..(WordMod - 1) :
       \E r \in LoadFileToBuf(Cur, f, JunkBuf, maxSize) :
          /\ Becomes(r.s)
          /\ call' = Called("loadFileToBuf", f, FALSE, r.ret)
          /\ out' = [NoOut EXCEPT !.stream = "raw", !.pf = r.pf, !.arg = maxSize,
                                  !.buf = r.buf]
    /\ trail' = NoTrail
    /\ UNCHANGED <<engineVars, vm, inp>>

CallCreateEndianAwareReadStream ==
    /\ status = "running"
    /\ \E f \in StreamNames, e \in Endianness :
       \E r \in CreateEndianAwareReadStream(Cur, vm, f, e) :
          /\ Becomes(r.s)
          /\ call' = Called("createEndianAwareReadStream", f, FALSE, r.stream # "null")
          /\ out' = [NoOut EXCEPT !.stream = r.stream, !.mode = e]
    /\ trail' = NoTrail
    /\ UNCHANGED <<engineVars, vm, inp>>

NextStreams ==
    \/ CallReset
    \/ CallLoadFileToBuf
    \/ CallCreateEndianAwareReadStream

SpecStreams == InitStreams /\ [][NextStreams]_vars

----------------------------------------------------------------------------
(* The calls that look a file up and read it, among the calls that attach   *)
(* packages: Kyra 1 for the Macintosh from its installer in five parts,     *)
(* and Kyra 3 with its file list.                                           *)

FacadeVariants ==
    { Variant("GI_KYRA1", "Macintosh", TRUE, FALSE, FALSE, "EN_ANY"),
      Variant("GI_KYRA3", "DOS", FALSE, FALSE, FALSE, "EN_ANY") }

\* The disks of a variant: the installer of the Macintosh in five good parts.
FacadeDisks(v) ==
    IF v.useInstallerPackage
    THEN {SplitInstaller(<<101, 102, 101, 101, 101>>)}
    ELSE {SingleInstaller}

InitFacade ==
    /\ vm \in FacadeVariants
    /\ Fresh
    /\ disk \in FacadeDisks(vm)
    /\ inp = NoInp
    /\ out = NoOut

\* createReadStream(f): the caller gets the stream or null.
CallCreateReadStream ==
    /\ status = "running"
    /\ \E f \in StreamNames : \E r \in CreateReadStream(Cur, f) :
          /\ Becomes(r.s)
          /\ call' = Called("createReadStream", f, FALSE, r.pf # "")
          /\ out' = [NoOut EXCEPT !.stream = IF r.pf = "" THEN "null" ELSE "raw",
                                  !.pf = r.pf]
    /\ trail' = NoTrail
    /\ UNCHANGED <<engineVars, vm, inp>>

\* fileData(f, size), size null or the address of a variable that holds Junk.
CallFileData ==
    /\ status = "running"
    /\ \E f \in StreamNames, sizeGiven \in BOOLEAN :
       \E r \in FileData(Cur, f, sizeGiven, Junk) :
          /\ Becomes(r.s)
          /\ call' = Called("fileData", f, sizeGiven, r.ret)
          /\ out' = [NoOut EXCEPT !.stream = IF r.ret THEN "data" ELSE "null",
                                  !.pf = r.pf, !.arg = r.size, !.buf = r.buf]
    /\ trail' = NoTrail
    /\ UNCHANGED <<engineVars, vm, inp>>

\* getFileSize(f): out.arg is the size returned.
CallGetFileSize ==
    /\ status = "running"
    /\ \E f \in StreamNames : \E r \in GetFileSize(Cur, f) :
          /\ Becomes(r.s)
          /\ call' = Called("getFileSize", f, FALSE, r.pf # "")
          /\ out' = [NoOut EXCEPT !.stream = "size", !.pf = r.pf, !.arg = r.ret]
    /\ trail' = NoTrail
    /\ UNCHANGED <<engineVars, vm, inp>>

NextFacade ==
    \/ CallReset
    \/ CallLoadPakFile
    \/ CallCreateReadStream
    \/ CallFileData
    \/ CallGetFileSize
    \/ CallLoadFileToBuf

SpecFacade == InitFacade /\ [][NextFacade]_vars

----------------------------------------------------------------------------
(* Kyra 1 for the Macintosh with the installer in five parts, each of any   *)
(* size about the size of the header, or not to be opened.                  *)

\* The most bytes a part has behind its header.
MaxPayload == 2

PartSizes == {-1} \cup ((HeaderSize - 1)..(HeaderSize + MaxPayload))

InitMac ==
    /\ vm = Variant("GI_KYRA1", "Macintosh", TRUE, FALSE, FALSE, "EN_ANY")
    /\ Fresh
    /\ disk \in {SplitInstaller(sizes) : sizes \in [1..5 -> PartSizes]}
    /\ inp = NoInp
    /\ out = NoOut

NextMac == CallReset

SpecMac == InitMac /\ [][NextMac]_vars

----------------------------------------------------------------------------
(* Kyra 1 and EOB 1 from a game directory that has, besides its packages,   *)
(* any of DirExtras.                                                        *)

ScanVariants ==
    { Variant("GI_KYRA1", "DOS", FALSE, FALSE, FALSE, "EN_ANY"),
      Variant("GI_KYRA1", "DOS", FALSE, FALSE, FALSE, "DE_DEU"),
      Variant("GI_EOB1",  "DOS", FALSE, FALSE, FALSE, "ES_ESP") }

InitScan ==
    /\ vm \in ScanVariants
    /\ Fresh
    /\ disk \in {[SingleInstaller EXCEPT !.extra = e] : e \in SUBSET DirExtras}
    /\ inp = NoInp
    /\ out = NoOut

NextScan == CallReset

SpecScan == InitScan /\ [][NextScan]_vars

----------------------------------------------------------------------------
(* Kyra 3, full game and demo, with a FILEDATA.FDT that lists any two names *)
(* at most.                                                                 *)

ListVariants ==
    { Variant("GI_KYRA3", "DOS", FALSE, FALSE, FALSE, "EN_ANY"),
      Variant("GI_KYRA3", "DOS", FALSE, TRUE,  FALSE, "EN_ANY") }

\* The most names FILEDATA.FDT lists.
MaxEntries == 2

\* The names FILEDATA.FDT may list: packages, one that is not there, one no
\* loader takes, and a file that is no package.
EntryNames == {"misc.pak", "GENERAL.PAK", "NONE.PAK", "EYE.PAK", "FONT.FNT"}

FdtLists == UNION {[1..n -> EntryNames] : n \in 0..MaxEntries}

\* The list files loadFileList is called for.
ListFiles == {"FILEDATA.FDT", "NONE.FDT"}

InitList ==
    /\ vm \in ListVariants
    /\ Fresh
    /\ disk \in {[SingleInstaller EXCEPT !.fdt = l] : l \in FdtLists}
    /\ inp = NoInp
    /\ out = NoOut

\* loadFileList(filedata)
CallLoadFileListFile ==
    /\ status = "running"
    /\ \E f \in ListFiles : \E r \in LoadFileListFile(Cur, vm, f) :
          /\ Becomes(r.s)
          /\ call' = Called("loadFileList(filedata)", f, FALSE, r.ret)
    /\ trail' = NoTrail
    /\ UNCHANGED <<engineVars, vm, inp, out>>

NextList ==
    \/ CallReset
    \/ CallLoadFileListFile
    \/ CallUnloadPakFile

SpecList == InitList /\ [][NextList]_vars

----------------------------------------------------------------------------
(* The properties.                                                         *)

NamesOf(ss) == {ss[i].name : i \in 1..Len(ss)}

\* The archive the layer ss holds under name n.
ArcOf(ss, n) == (CHOOSE nd \in {ss[i] : i \in 1..Len(ss)} : nd.name = n).arc

\* C1: a call of loadArchive, loadInstallerArchive or loadStuffItArchive for a
\* key for which an earlier call returned an archive, the entry not erased in
\* between, returns that same archive and runs no loader.
C1_CacheIdempotence ==
    [][\A k \in AllKeys :
          (returned[k] # Null /\ returned'[k] # Null)
          => (returned'[k] = returned[k] /\ parses'[k] = parses[k])]_vars

\* loadPakFile("GENERAL.PAK") called loadArchive for the key the directory
\* scan of reset had called it for, and got the archive of the scan.
C1_Witness ==
    /\ call.op = "loadPakFile" /\ call.name = "GENERAL.PAK" /\ call.ret
    /\ SSHasArchive(files, "GENERAL.PAK") /\ SSHasArchive(archiveFiles, "GENERAL.PAK")
    /\ ArcOf(files, "GENERAL.PAK") = ArcOf(archiveFiles, "GENERAL.PAK")
    /\ parses["GENERAL.PAK"] = 1

\* C2: the cache never holds two archives whose keys differ in letter case
\* only.
C2_OnePerCanonicalName ==
    \A k1, k2 \in DOMAIN archiveCache : ToUpper(k1) = ToUpper(k2) => k1 = k2

\* C3: every key of the cache is its own uppercase form: isInCacheList finds
\* every cached archive.
C3_KeysUppercase ==
    \A k \in DOMAIN archiveCache : k = ToUpper(k) /\ IsInCacheList(Cur, k)

\* C4: after loadProtectedFiles(list) and then unloadPakFile(A, TRUE), A in
\* the list, every member of A resolves, and a live archive serves it.
C4_ProtectedImmunity ==
    (trail.phase = 4 /\ trail.flag)
    => /\ SSHasArchive(protectedFiles, trail.name)
       /\ ArcOf(protectedFiles, trail.name) \notin destroyed
       /\ \A f \in World[arcFile[ArcOf(protectedFiles, trail.name)]].contents :
             \A m \in GetMember(Cur, World[f].name) : m.kind = "hit"

\* C5: unloadPakFile leaves the protected layer and the composite set as they
\* are, and adds nothing to the normal layer.
C5_UnloadFrame ==
    [][call'.op = "unloadPakFile"
       => /\ protectedFiles' = protectedFiles
          /\ files' = files
          /\ NamesOf(archiveFiles') \subseteq NamesOf(archiveFiles)]_vars

\* unloadPakFile(A, TRUE) was called on a name of the protected layer.
C5_Witness ==
    /\ call.op = "unloadPakFile" /\ call.flag
    /\ SSHasArchive(protectedFiles, ToUpper(call.name))
    /\ ~SSHasArchive(archiveFiles, ToUpper(call.name))
    /\ destroyed # {}

\* The layers and the cache are what they were.
LayersAndCacheUnchanged ==
    /\ archiveCache' = archiveCache
    /\ archiveFiles' = archiveFiles
    /\ protectedFiles' = protectedFiles
    /\ files' = files
    /\ destroyed' = destroyed

C7_UnloadReload_AsStated ==
    [][(trail.phase = 2 /\ call'.op = "loadPakFile" /\ ToUpper(call'.name) = trail.name)
       => parses'[trail.name] = parses[trail.name] + (IF trail.flag THEN 1 ELSE 0)]_vars

\* C7, amended: as stated when flag is not set; when flag is set, one parse
\* exactly if N is not in the protected layer and the second loadPakFile
\* returns true, and none if N is in the protected layer.
C7_UnloadReload ==
    [][(trail.phase = 2 /\ call'.op = "loadPakFile" /\ ToUpper(call'.name) = trail.name)
       => /\ ~trail.flag => parses'[trail.name] = parses[trail.name]
          /\ (trail.flag /\ ~SSHasArchive(protectedFiles, trail.name) /\ call'.ret)
                => parses'[trail.name] = parses[trail.name] + 1
          /\ (trail.flag /\ SSHasArchive(protectedFiles, trail.name))
                => parses'[trail.name] = parses[trail.name]]_vars

\* loadPakFile(N), unloadPakFile(N, TRUE), loadPakFile(N): N was parsed twice.
C7_Witness ==
    /\ call.op = "loadPakFile" /\ call.ret /\ trail.phase = 1
    /\ parses[trail.name] = 2
    /\ Removals(Cur, trail.name) = 1
    /\ ~SSHasArchive(protectedFiles, trail.name)

\* C8 as stated: unloadPakFile(name, FALSE), unloadAllPakFiles and reset leave
\* the cache as it is.
C8_CacheFrame_AsStated ==
    [][((call'.op = "unloadPakFile" /\ ~call'.flag)
         \/ call'.op = "unloadAllPakFiles" \/ call'.op = "reset")
       => (archiveCache' = archiveCache /\ destroyed' = destroyed)]_vars

\* C8, amended: an entry is erased, or replaced, by unloadPakFile with the
\* flag set only; unloadPakFile(name, FALSE) and unloadAllPakFiles leave the
\* cache as it is, and reset keeps every entry it finds (it may add entries).
C8_CacheFrame ==
    [][/\ (\E k \in DOMAIN archiveCache :
              k \notin DOMAIN archiveCache' \/ archiveCache'[k] # archiveCache[k])
          => (call'.op = "unloadPakFile" /\ call'.flag)
       /\ destroyed' # destroyed => (call'.op = "unloadPakFile" /\ call'.flag)
       /\ ((call'.op = "unloadPakFile" /\ ~call'.flag) \/ call'.op = "unloadAllPakFiles")
          => archiveCache' = archiveCache]_vars

\* reset of the Kyra 1 demo, which loads nothing, returned with an entry in
\* the cache and nothing in the layers.
C8_Witness ==
    /\ call.op = "reset" /\ vm.game = "GI_KYRA1" /\ vm.isDemo
    /\ DOMAIN archiveCache # {}
    /\ archiveFiles = <<>> /\ protectedFiles = <<>>

\* C9 as stated: no physical file is parsed twice.
C9_ParsedOnce_AsStated == \A f \in PhysFiles : ParsesOfFile(Cur, f) <= 1

\* C9, amended: a loader runs for a cache key only while the cache has no
\* entry under that key: every parse for a key after the first follows an
\* unloadPakFile that erased the entry of that key.
C9_ParsedOncePerEntry ==
    \A k \in AllKeys :
       /\ parses[k] <= Removals(Cur, k) + 1
       /\ (k \in DOMAIN archiveCache => parses[k] = Removals(Cur, k) + 1)
       /\ (k \notin DOMAIN archiveCache => parses[k] = Removals(Cur, k))

\* A key was parsed a second time, after its entry was erased.
C9_Witness == \E k \in AllKeys : parses[k] = 2 /\ Removals(Cur, k) = 1

\* C10 as stated: unloadPakFile(name, TRUE) on a name isInCacheList finds
\* leaves the name out of the normal layer and out of the cache.
C10_UnloadErases_AsStated ==
    [][(call'.op = "unloadPakFile" /\ call'.flag /\ IsInCacheList(Cur, call'.name))
       => /\ ~IsInCacheList(Cur', call'.name)
          /\ ~SSHasArchive(archiveFiles', ToUpper(call'.name))
          /\ archiveCache[ToUpper(call'.name)] \in destroyed']_vars

\* C10, amended: unloadPakFile(name, TRUE) on a name of the normal layer
\* takes it out of the normal layer, destroys the archive the cache held for
\* it and erases the entry; on any other name it changes nothing.
C10_UnloadErases ==
    [][(call'.op = "unloadPakFile" /\ call'.flag)
       => LET n == ToUpper(call'.name) IN
          IF SSHasArchive(archiveFiles, n)
          THEN /\ ~SSHasArchive(archiveFiles', n)
               /\ n \in DOMAIN archiveCache
               /\ ArcOf(archiveFiles, n) = archiveCache[n]
               /\ destroyed' = destroyed \cup {archiveCache[n]}
               /\ archiveCache[n] \notin destroyed
               /\ ~IsInCacheList(Cur', n)
               /\ DOMAIN archiveCache' = DOMAIN archiveCache \ {n}
          ELSE LayersAndCacheUnchanged]_vars

\* unloadPakFile(N, TRUE) destroyed the archive of N.
C10_Witness ==
    /\ call.op = "unloadPakFile" /\ call.flag
    /\ \E a \in destroyed : a.key = ToUpper(call.name)
    /\ ~IsInCacheList(Cur, call.name)

\* Node nd of the flattened composite set may answer a lookup of n: the game
\* directory has the file, or the archive of the node has it, or the archive
\* is null or destroyed.
Serves(s, nd, n) ==
    IF nd.kind = "global" THEN DiskFilesNamed(n) # {}
    ELSE \/ nd.arc = Null
         \/ nd.arc \in s.destroyed
         \/ MembersNamed(s.arcFile[nd.arc], n) # {}

\* No node of the composite set may answer a lookup of n.
Unserved(s, n) ==
    LET flat == Flatten(s, 1) IN \A i \in 1..Len(flat) : ~Serves(s, flat[i], n)

\* The names of the members of the package cached under key k.
MemberNamesOf(s, k) == {World[f].name : f \in World[s.arcFile[s.cache[k]]].contents}

C12_LoadingToCached ==
    /\ (call.op = "loadPakFile" /\ call.ret /\ status = "running")
       => (IsInPakList(Cur, call.name) /\ IsInCacheList(Cur, call.name))
    /\ trail.phase = 3
       => \A i \in 1..Len(trail.list) :
             /\ SSHasArchive(protectedFiles, trail.list[i])
             /\ trail.list[i] \in DOMAIN archiveCache

\* The archives the cache holds.
CachedArchives == {archiveCache[k] : k \in DOMAIN archiveCache}

\* C13: the archive of every node of a layer and of the composite set is an
\* entry of the cache and was not destroyed.
C13_ExclusiveOwnership ==
    LET flat == Flatten(Cur, 1) IN
    \A i \in 1..Len(flat) :
        flat[i].kind = "arc"
        => (flat[i].arc \in CachedArchives /\ flat[i].arc \notin destroyed)

\* The list a call of loadProtectedFiles or loadFileList was made with.
ListOf(c) == CHOOSE l \in FileLists : l[1] = c.name

\* The lookup of n yields a file that is not cached under n and that no loader
\* accepts under the name n.
Unloadable(s, n) ==
    /\ n \notin DOMAIN s.cache
    /\ \A m \in GetMember(s, n) : m.kind = "hit" /\ Dispatch(n, m.pf, 1) = 0

\* C14: loadProtectedFiles never returns false; when it returns, every name of
\* the list is in the protected layer with a cached archive; and when the first
\* name of the list does not resolve, or resolves to a file no loader accepts,
\* the call ends in error().
C14_ProtectedFailureFatal ==
    [][call'.op = "loadProtectedFiles"
       => LET list == ListOf(call') IN
          /\ status' = "running"
             => /\ call'.ret
                /\ \A i \in 1..Len(list) :
                      /\ SSHasArchive(protectedFiles', list[i])
                      /\ list[i] \in DOMAIN archiveCache'
          /\ (GetMember(Cur, list[1]) = {NotFound} \/ Unloadable(Cur, list[1]))
             => (status' = "fatal" /\ protectedFiles' = protectedFiles
                 /\ archiveCache' = archiveCache)]_vars

\* loadProtectedFiles(["EYE.PAK"]) ended in error(): the file is in the game
\* directory, and no loader accepts it.
C14_Witness ==
    /\ call.op = "loadProtectedFiles" /\ call.name = "EYE.PAK"
    /\ status = "fatal"
    /\ DiskFilesNamed("EYE.PAK") # {}

\* C20: loadPakFile, which hands the name to loadArchive, never ends in
\* error(); when the file it finds is one no loader accepts, loadArchive yields
\* null: loadPakFile returns false, no loader has run and the cache and the
\* layers are unchanged; and whenever loadPakFile returns false (no loader
\* accepted the file, or its stream did not open) the cache is unchanged.  No
\* entry of the cache is ever null.
C20_NoLoaderNoEntry ==
    [][call'.op = "loadPakFile"
       => LET n == ToUpper(call'.name) IN
          /\ status' # "fatal"
          /\ (~IsInPakList(Cur, n) /\ Unloadable(Cur, n))
             => (~call'.ret /\ status' = "running" /\ parses' = parses
                 /\ LayersAndCacheUnchanged)
          /\ (status' = "running" /\ ~call'.ret)
             => (archiveCache' = archiveCache /\ parses' = parses)
          /\ \A k \in DOMAIN archiveCache' : archiveCache'[k] # Null]_vars

\* loadPakFile("EYE.PAK") returned false: the file is in the game directory,
\* no loader accepts it, and the cache has no entry for it.
C20_Witness ==
    /\ call.op = "loadPakFile" /\ call.name = "EYE.PAK" /\ ~call.ret
    /\ status = "running"
    /\ DiskFilesNamed("EYE.PAK") # {}
    /\ "EYE.PAK" \notin DOMAIN archiveCache
    /\ DOMAIN archiveCache # {}

\* C19: in the loader loop the stream stands at 0 whenever isLoadable of a
\* loader is called, the loaders asked before having declined, and at 0 when
\* load of the accepting loader is called, wherever the calls of isLoadable
\* left it.
C19_LoaderFallback ==
    \A i \in 1..Len(out.log) : out.log[i].pos = 0

\* The PAK loader took the name of a .TLK file and declined its content,
\* leaving the stream away from 0; the TLK loader was asked next and loaded
\* the file, having left the stream away from 0 as well.
C19_Witness ==
    /\ out.stream = "loaders" /\ out.arg = 3
    /\ Len(out.log) = 3
    /\ out.log[1] = LoaderEvent("isLoadable", 1, 0)
    /\ out.log[2] = LoaderEvent("isLoadable", 3, 0)
    /\ out.log[3] = LoaderEvent("load", 3, 0)
    /\ inp.leave[1] > 0 /\ inp.leave[3] > 0

\* C15: after loadFileToBuf(file, buf, maxSize) of a file of size S that
\* resolves, the first min(maxSize, S) bytes at buf are the first bytes of the
\* file, the bytes from there to maxSize - 1 are zero, and the bytes from
\* maxSize on are what they were.
C15_LoadFileToBuf ==
    (call.op = "loadFileToBuf" /\ call.ret)
    => LET S == FileSize(out.pf)
           m == Min(out.arg, S)
       IN /\ Len(out.buf) = WordMod
          /\ \A i \in 0..(WordMod - 1) :
                out.buf[i + 1] = IF i < m THEN FileBytes(out.pf)[i + 1]
                                 ELSE IF i < out.arg THEN 0
                                 ELSE Junk

\* A file of 9 bytes was read into a buffer of a size whose int32 is
\* negative: the bytes of the file, zeros behind them, the memory behind the
\* buffer untouched.
C15_Witness ==
    /\ call.op = "loadFileToBuf" /\ call.ret
    /\ FileSize(out.pf) = 9 /\ out.arg = 12 /\ ToInt32(out.arg) < 0
    /\ out.buf[9] = 9 /\ out.buf[10] = 0 /\ out.buf[12] = 0 /\ out.buf[13] = Junk

\* C16: createEndianAwareReadStream(file, mode) yields null when the file
\* does not resolve; otherwise a big-endian wrapper for kForceBE, a
\* little-endian one for kForceLE, and for every other mode a big-endian one
\* exactly when the platform is the Amiga or the SegaCD.
C16_EndianAware ==
    (call.op = "createEndianAwareReadStream" /\ status = "running")
    => IF GetMember(Cur, call.name) = {NotFound}
       THEN out.stream = "null" /\ ~call.ret
       ELSE out.stream =
              (CASE out.mode = "kForceBE" -> "BE"
                 [] out.mode = "kForceLE" -> "LE"
                 [] OTHER -> IF vm.platform \in {"Amiga", "SegaCD"} THEN "BE" ELSE "LE")

\* On the SegaCD a mode that is none of the three named ones gave a
\* big-endian wrapper.
C16_Witness ==
    /\ call.op = "createEndianAwareReadStream" /\ call.ret
    /\ vm.platform = "SegaCD" /\ out.mode = "other" /\ out.stream = "BE"

\* The number of bytes parts 1 to i - 1 of the split installer have behind
\* their headers.
RECURSIVE PayloadBefore(_)
PayloadBefore(i) ==
    IF i <= 1 THEN 0 ELSE PayloadBefore(i - 1) + (disk.parts[i - 1] - HeaderSize)

\* C17: the stream handed to the loader has, for every part i in the order 1
\* to 5 and every offset k from 100 to the end of the part, byte k of part i
\* at the place behind the payloads of the parts before: its length is the
\* sum of the sizes less 100 each, with no byte missing and none twice.
C17_MultiPartContinuity ==
    handed # <<>>
    => /\ Len(handed) = PayloadBefore(6)
       /\ \A i \in 1..5 : \A k \in HeaderSize..(disk.parts[i] - 1) :
             handed[PayloadBefore(i) + (k - HeaderSize) + 1] = [part |-> i, off |-> k]

\* Five parts of different sizes were put together: the last byte of part 1
\* is followed by byte 100 of part 2.
C17_Witness ==
    /\ call.op = "reset" /\ call.ret /\ status = "running"
    /\ disk.parts = <<102, 101, 102, 101, 101>>
    /\ Len(handed) = 7
    /\ handed[2] = [part |-> 1, off |-> 101]
    /\ handed[3] = [part |-> 2, off |-> 100]
    /\ handed[7] = [part |-> 5, off |-> 100]

\* C18: with a part of the split installer that cannot be opened, or that has
\* 100 bytes or fewer, reset ends in error() with no archive created, none
\* cached and no stream handed to the loader; a stream handed to the loader has
\* the payload of all five parts.
C18_SplitInstallerFatal ==
    /\ (call.op = "reset" /\ ~disk.single
        /\ \E i \in 1..Len(disk.parts) : disk.parts[i] <= HeaderSize)
       => /\ status = "fatal"
          /\ archiveCache = EmptyMap
          /\ arcFile = EmptyMap
          /\ handed = <<>>
          /\ files = InitFiles
    /\ handed # <<>>
       => \A i \in 1..5 :
             \E j \in 1..Len(handed) : handed[j].part = i

\* Part 3 has its header and nothing else; parts 1 and 2 are good: reset
\* ended in error().
C18_Witness ==
    /\ call.op = "reset" /\ status = "fatal"
    /\ disk.parts = <<101, 102, 100, 101, 101>>
    /\ handed = <<>> /\ archiveCache = EmptyMap

\* The nodes lookup consults, in its order, each with the layer it is in:
\* "global", "protected", "normal", "installer", or "package" for an archive
\* reset put into the composite set under its own name.
RECURSIVE Layered(_, _)
Layered(s, i) ==
    IF i > Len(s.files) THEN <<>>
    ELSE LET nd == s.files[i]
             part ==
               CASE nd.kind = "protected" ->
                      [j \in 1..Len(s.protectedFiles) |->
                          [node |-> s.protectedFiles[j], layer |-> "protected"]]
                 [] nd.kind = "archives" ->
                      [j \in 1..Len(s.archiveFiles) |->
                          [node |-> s.archiveFiles[j], layer |-> "normal"]]
                 [] nd.kind = "global" -> <<[node |-> nd, layer |-> "global"]>>
                 [] nd.name = "installer" -> <<[node |-> nd, layer |-> "installer"]>>
                 [] OTHER -> <<[node |-> nd, layer |-> "package"]>>
         IN part \o Layered(s, i + 1)

\* The entry e of Layered has a copy of the file n.
HasCopy(s, e, n) ==
    IF e.layer = "global" THEN DiskFilesNamed(n) # {}
    ELSE /\ e.node.arc # Null
         /\ e.node.arc \notin s.destroyed
         /\ MembersNamed(s.arcFile[e.node.arc], n) # {}

\* The result m of a lookup is the copy of entry e.
CopyOf(e, m) ==
    IF e.layer = "global" THEN m.arc = Null ELSE m.arc = e.node.arc

\* The names looked up.
LookupNames == FileNames \cup {"GENERAL.PAK", "OTHER.PAK"}

\* The priority of a layer as the facade documents it; a package of the
\* composite set has the priority reset gave it.
DocumentedPriority(e) ==
    CASE e.layer = "global" -> 3
      [] e.layer = "installer" -> 2
      [] e.layer = "protected" -> 1
      [] e.layer = "normal" -> 0
      [] OTHER -> e.node.prio

\* C21: a lookup yields the copy of a layer no other layer that has the name
\* is above: global search path 3, installer 2, protected 1, normal 0.
C21_PriorityDeterminism ==
    LET lay == Layered(Cur, 1) IN
    \A n \in LookupNames : \A m \in GetMember(Cur, n) :
        m.kind = "hit"
        => \E i \in 1..Len(lay) :
              /\ HasCopy(Cur, lay[i], n) /\ CopyOf(lay[i], m)
              /\ \A j \in 1..Len(lay) :
                    HasCopy(Cur, lay[j], n)
                    => DocumentedPriority(lay[j]) <= DocumentedPriority(lay[i])

\* Where the node named n stands in the search set ss.
PosOf(ss, n) == CHOOSE i \in 1..Len(ss) : ss[i].name = n

\* The search set new has the nodes it shares with old in the order of old,
\* and each node it has more behind the nodes of its priority and above.
RegisteredBehind(old, new) ==
    /\ \A a, b \in NamesOf(old) \cap NamesOf(new) :
          PosOf(old, a) < PosOf(old, b) => PosOf(new, a) < PosOf(new, b)
    /\ \A a \in NamesOf(new) \ NamesOf(old) : \A b \in NamesOf(old) \cap NamesOf(new) :
          new[PosOf(new, b)].prio >= new[PosOf(new, a)].prio
          => PosOf(new, b) < PosOf(new, a)

\* C22: the archives of the normal layer have one priority, and so have the
\* archives of the protected layer; a layer or archive is registered behind
\* every one of its priority that was registered before and keeps its place;
\* and a lookup yields the copy of the first node, in the order of
\* registration within the order of priority, that has the name.
C22_TieBreaking ==
    /\ [](/\ \A i \in 1..Len(archiveFiles) : archiveFiles[i].prio = 0
          /\ \A i \in 1..Len(protectedFiles) : protectedFiles[i].prio = 0
          /\ LET lay == Layered(Cur, 1) IN
             \A n \in LookupNames : \A m \in GetMember(Cur, n) :
                 m.kind = "hit"
                 => \E i \in 1..Len(lay) :
                       /\ HasCopy(Cur, lay[i], n) /\ CopyOf(lay[i], m)
                       /\ \A j \in 1..(i - 1) : ~HasCopy(Cur, lay[j], n))
    /\ [][/\ RegisteredBehind(files, files')
          /\ call'.op # "reset"
             => /\ RegisteredBehind(archiveFiles, archiveFiles')
                /\ RegisteredBehind(protectedFiles, protectedFiles')]_vars

\* MISC.PAK was attached to the normal layer before GENERAL.PAK; both have
\* FONT.FNT, and the lookup yields the one of MISC.PAK.
C22_Witness ==
    /\ Len(archiveFiles) >= 2
    /\ archiveFiles[1].name = "MISC.PAK" /\ archiveFiles[2].name = "GENERAL.PAK"
    /\ archiveFiles[1].arc \notin destroyed /\ archiveFiles[2].arc \notin destroyed
    /\ MembersNamed(arcFile[archiveFiles[2].arc], "FONT.FNT") # {}
    /\ protectedFiles = <<>>
    /\ GetMember(Cur, "FONT.FNT") = {Hit("fFont", archiveFiles[1].arc)}

\* C30: the installer archive reset attaches is at priority 2.
C30_InstallerLevel ==
    \A i \in 1..Len(files) : files[i].name = "installer" => files[i].prio = 2

\* C23: an archive is above the global search path only for EOB 1 in Spanish
\* and only when it has ITEM.DAT; and every name other than ITEM.DAT that the
\* game directory has resolves to the copy of the game directory.
C23_OverrideExact ==
    /\ \A i \in 1..Len(files) :
          files[i].prio > 3
          => /\ vm.game = "GI_EOB1" /\ vm.lang = "ES_ESP"
             /\ files[i].arc # Null
             /\ MembersNamed(arcFile[files[i].arc], "ITEM.DAT") # {}
    /\ \A n \in LookupNames :
          (ToUpper(n) # "ITEM.DAT" /\ DiskFilesNamed(n) # {})
          => \A m \in GetMember(Cur, n) : m.kind = "hit" /\ m.arc = Null

\* What reset attaches for the game variant when nothing was attached before.
FirstReset == Reset([InitState EXCEPT !.disk = disk], vm)

\* C24: after reset has returned, the layers and the composite set have the
\* names a first reset of the variant attaches, and every archive attached is
\* one this reset got from the cache: none that was attached before is left
\* over.
C24_ResetTearsDown ==
    (call.op = "reset" /\ status = "running")
    => /\ \E r \in FirstReset :
             /\ NamesOf(archiveFiles) = NamesOf(r.s.archiveFiles)
             /\ NamesOf(protectedFiles) = NamesOf(r.s.protectedFiles)
             /\ NamesOf(files) = NamesOf(r.s.files)
       /\ LET flat == Flatten(Cur, 1) IN
          \A i \in 1..Len(flat) :
              flat[i].kind = "arc" => flat[i].arc \in CachedArchives

\* C25: with the installer package missing, reset of a variant that uses one
\* ends in error(); and no node of the composite set has a null archive.
C25_InstallerFatal ==
    /\ (call.op = "reset" /\ vm.useInstallerPackage /\ disk = NoInstaller)
       => status = "fatal"
    /\ \A i \in 1..Len(files) : files[i].kind = "arc" => files[i].arc # Null

\* The game ids reset has a branch for.
KnownGames == {"GI_KYRA1", "GI_EOB1", "GI_KYRA2", "GI_KYRA3", "GI_LOL", "GI_EOB2"}

\* C29: reset of a game id it has no branch for ends in error(); and a reset
\* that has returned, returned true.
C29_UnknownGameFatal ==
    call.op = "reset"
    => /\ vm.game \notin KnownGames => status = "fatal"
       /\ status = "running" => (vm.game \in KnownGames /\ call.ret = TRUE)

\* reset of the unknown game id has ended in error().
C29_Witness ==
    /\ call.op = "reset" /\ vm.game = "GI_UNKNOWN"
    /\ status = "fatal" /\ archiveCache = EmptyMap

\* C28: exists changes neither the cache nor a layer; a call that returns
\* true had a lookup that found the name, a call that returns false had
\* errorOutOnFail unset and a lookup that found nothing, and a call that ends
\* in error() had errorOutOnFail set and a lookup that found nothing; where
\* the name resolves in no node the call returns false or ends in error(), by
\* errorOutOnFail, and where it resolves the call returns true.  (A lookup
\* that runs into a null or destroyed archive may crash.)
C28_Exists ==
    [][call'.op = "exists"
       => LET ms == GetMember(Cur, call'.name) IN
          /\ LayersAndCacheUnchanged /\ arcFile' = arcFile /\ parses' = parses
          /\ (status' = "running" /\ call'.ret)
             => \E m \in ms : m.kind \in {"hit", "garbage"}
          /\ (status' = "running" /\ ~call'.ret)
             => (NotFound \in ms /\ ~call'.flag)
          /\ status' = "fatal" => (NotFound \in ms /\ call'.flag)
          /\ ms = {NotFound}
             => IF call'.flag THEN status' = "fatal"
                ELSE status' = "running" /\ ~call'.ret
          /\ (\A m \in ms : m.kind = "hit")
             => (status' = "running" /\ call'.ret)]_vars

\* exists("FONT.FNT", TRUE) ended in error(): no package that has the file
\* is attached, and the game directory has none.
C28_Witness ==
    /\ call.op = "exists" /\ call.name = "FONT.FNT" /\ call.flag
    /\ status = "fatal"
    /\ GetMember(Cur, "FONT.FNT") = {NotFound}
    /\ destroyed = {}

\* C26: when a call has returned, or before the first, the facade holds no
\* stream it has made: loadArchive, fileData, getFileSize, loadFileToBuf,
\* loadFileList of a file and loadStuffItArchive of a stream have deleted
\* theirs, or given it to the loader that keeps it.
C26_NoStreamLeak == status = "running" => openStreams = 0

\* loadPakFile("EYE.PAK") has returned false: loadArchive opened the stream
\* of the file, no loader took it, and the stream was deleted.
C26_Witness ==
    /\ call.op = "loadPakFile" /\ ToUpper(call.name) = "EYE.PAK" /\ ~call.ret
    /\ status = "running" /\ openStreams = 0
    /\ GetMember(Cur, "EYE.PAK") = {Hit("dEye", Null)}

\* The calls C27 is about.
LookupCalls == {"createReadStream", "fileData", "getFileSize", "loadFileToBuf", "loadPakFile"}

\* C27: a call of createReadStream, fileData, getFileSize, loadFileToBuf or
\* loadPakFile for a name no node has returns, with the cache, the layers and
\* the archives as they were: createReadStream and fileData return null and
\* the variable at size is as it was, getFileSize returns 0, loadFileToBuf
\* returns false and the buffer is as it was, loadPakFile returns false.
C27_NotFoundNonFatal ==
    [][(call'.op \in LookupCalls /\ GetMember(Cur, call'.name) = {NotFound})
       => /\ status' = "running"
          /\ LayersAndCacheUnchanged /\ arcFile' = arcFile /\ parses' = parses
          /\ openStreams' = openStreams
          /\ ~call'.ret
          /\ call'.op = "createReadStream" => out'.stream = "null"
          /\ call'.op = "fileData" => (out'.stream = "null" /\ out'.arg = Junk)
          /\ call'.op = "getFileSize" => out'.arg = 0
          /\ call'.op = "loadFileToBuf" => out'.buf = JunkBuf]_vars

\* loadFileToBuf("FONT.FNT", buf, 5) has returned false after reset: no
\* package that has the file is attached; the buffer holds what it held.
C27_Witness ==
    /\ call.op = "loadFileToBuf" /\ call.name = "FONT.FNT" /\ ~call.ret
    /\ out.arg = 5 /\ out.buf = JunkBuf
    /\ status = "running"
    /\ archiveCache # EmptyMap
    /\ GetMember(Cur, "FONT.FNT") = {NotFound}

\* The *.PAK and *.APK files of the game directory.
Discovered == {f \in GameDir \cup disk.extra :
                 HasSuffixPAK(World[f].name) \/ HasSuffixAPK(World[f].name)}

\* The script archive of the language the user chose.
ScriptArchive(lang) == IF lang = "EN_ANY" THEN "EMC.PAK" ELSE "JMC.PAK"

\* The files the scan leaves out, by their uppercased name.
LeftOut(f) ==
    LET name == ToUpper(World[f].name) IN
    \/ name \in {"TWMUSIC.PAK", "EYE.PAK"}
    \/ (name \in {"EMC.PAK", "JMC.PAK"} /\ name # ScriptArchive(vm.lang))

\* C31: after the scan of reset no node has the name of TWMUSIC.PAK, of
\* EYE.PAK or of the script archive of the other language; reset ended in
\* error() exactly when no loader takes one of the other packages found; and
\* when reset has returned, every other package found is attached under its
\* uppercased name.
C31_DirectoryScan ==
    call.op = "reset"
    => /\ \A f \in Discovered :
             LeftOut(f) => ~SSHasArchive(files, ToUpper(World[f].name))
       /\ status = "fatal"
          <=> \E f \in Discovered :
                 ~LeftOut(f) /\ Dispatch(World[f].name, f, 1) = 0
       /\ status = "running"
          => \A f \in Discovered :
                ~LeftOut(f)
                => LET n == ToUpper(World[f].name) IN
                   /\ SSHasArchive(files, n)
                   /\ ArcOf(files, n) # Null
                   /\ arcFile[ArcOf(files, n)] = f

\* German Kyra 1 with emc.pak and JMC.PAK in the game directory: reset has
\* returned, JMC.PAK is attached and emc.pak is not.
C31_Witness ==
    /\ call.op = "reset" /\ status = "running"
    /\ vm.lang = "DE_DEU" /\ {"dEmc", "dJmc"} \subseteq disk.extra
    /\ SSHasArchive(files, "JMC.PAK") /\ ~SSHasArchive(files, "EMC.PAK")
    /\ SSHasArchive(files, "MISC.PAK")

\* Entry i of the list of the disk names a package.
IsPakEntry(i) == HasSuffixPAK(ToUpper(disk.fdt[i]))

\* Entry i names a package the demo passes over: nothing has the name.
PassedOver(s, i) == vm.isDemo /\ GetMember(s, ToUpper(disk.fdt[i])) = {NotFound}

\* loadPakFile of entry i returns false.
FailsToLoad(s, i) == \E r \in LoadPakFile(s, ToUpper(disk.fdt[i])) : ~r.ret

\* C32: loadFileList of a list file that does not open returns false and
\* changes nothing; otherwise it ends in error() exactly when an entry names
\* a package that loadPakFile fails on and that is not passed over (the game
\* is a demo and the package does not exist), and when it returns it returns
\* true, with every package entry attached or passed over.
C32_LoadFileList ==
    [][call'.op = "loadFileList(filedata)"
       => IF GetMember(Cur, call'.name) = {NotFound}
          THEN /\ status' = "running" /\ ~call'.ret
               /\ LayersAndCacheUnchanged /\ arcFile' = arcFile /\ parses' = parses
               /\ openStreams' = openStreams
          ELSE /\ status' = "fatal"
                  <=> \E i \in 1..Len(disk.fdt) :
                         IsPakEntry(i) /\ ~PassedOver(Cur, i) /\ FailsToLoad(Cur, i)
               /\ status' = "running"
                  => /\ call'.ret
                     /\ \A i \in 1..Len(disk.fdt) :
                           IsPakEntry(i)
                           => \/ IsInPakList(Cur', disk.fdt[i])
                              \/ PassedOver(Cur', i)]_vars

\* The demo with NONE.PAK and GENERAL.PAK in the list: loadFileList has
\* returned true, GENERAL.PAK is attached, NONE.PAK was passed over.
C32_Witness ==
    /\ call.op = "loadFileList(filedata)" /\ call.ret /\ status = "running"
    /\ vm.isDemo /\ disk.fdt = <<"NONE.PAK", "GENERAL.PAK">>
    /\ IsInPakList(Cur, "GENERAL.PAK") /\ ~IsInPakList(Cur, "NONE.PAK")

\* C33: a reset that returns right after a reset that returned leaves the
\* layers, the composite set and the cache as the first left them (the same
\* names, archives and priorities), and runs no loader.
C33_ResetIdempotent ==
    [][(call.op = "reset" /\ status = "running" /\ call'.op = "reset"
        /\ status' = "running")
       => /\ archiveFiles' = archiveFiles
          /\ protectedFiles' = protectedFiles
          /\ files' = files
          /\ archiveCache' = archiveCache
          /\ parses' = parses
          /\ call'.ret = call.ret]_vars

\* reset has returned with packages in the composite set, in the protected
\* layer or in the normal layer, all of them from the cache.
C33_Witness ==
    /\ call.op = "reset" /\ status = "running" /\ call.ret
    /\ vm.game = "GI_KYRA2" /\ vm.useInstallerPackage /\ disk.westwood
    /\ Len(archiveFiles) >= 1 /\ Len(files) = 4
    /\ parses["OTHER.PAK"] = 1
    /\ Reset(Cur, vm) = {[s |-> Cur, ret |-> TRUE]}

\* The loaders, in the order of registration, that take the name and the
\* content of the member handed to loadArchive.
Accepting ==
    {i \in 1..Len(Loaders) :
        CheckFilename(Loaders[i], inp.name) /\ IsLoadable(Loaders[i], inp.pf)}

\* The calls of load in the log.
LoadCalls == {k \in 1..Len(out.log) : out.log[k].ev = "load"}

\* C34: the loaders are PAK, INS, TLK in this order; load is called once at
\* most, and of the first loader that takes the name and the content; no
\* loader behind it is asked anything; the archive is the one its load
\* returns, null when it returns null and null when no loader takes the file.
C34_FirstMatch ==
    out.stream = "loaders"
    => /\ Loaders = <<"PAK", "INS", "TLK">>
       /\ Cardinality(LoadCalls) <= 1
       /\ \A j, k \in 1..Len(out.log) : j < k => out.log[j].loader <= out.log[k].loader
       /\ IF Accepting = {}
          THEN LoadCalls = {} /\ out.arg = 0 /\ out.mode = "null"
          ELSE LET first == CHOOSE i \in Accepting : \A j \in Accepting : i <= j IN
               /\ out.arg = first
               /\ \E k \in LoadCalls : out.log[k].loader = first
               /\ \A k \in 1..Len(out.log) : out.log[k].loader <= first
               /\ out.mode = IF LoadFails(Loaders[first], inp.pf) THEN "null"
                             ELSE "archive"

\* SPEECH.TLK with a content the PAK and the TLK loader both take: load of
\* the PAK loader was called and returned null; the TLK loader was not asked.
C34_Witness ==
    /\ out.stream = "loaders" /\ inp.name = "SPEECH.TLK" /\ inp.pf = "dTrunc"
    /\ Accepting = {1, 3}
    /\ out.arg = 1 /\ out.mode = "null"
    /\ Len(out.log) = 2 /\ out.log[2].ev = "load"

\* Names of packages in upper, lower and mixed case.
CaseNames == PakNames \cup {"general.pak", "other.pak"}

\* C35: loadPakFile, unloadPakFile, isInPakList and isInCacheList do for a
\* name what they do for every name that differs from it in the case of its
\* letters only: the same outcomes (value returned, layers and cache
\* afterwards), in every state.
C35_CaseInsensitive ==
    \A n1, n2 \in CaseNames :
        (n1 # n2 /\ ToUpper(n1) = ToUpper(n2))
        => /\ LoadPakFile(Cur, n1) = LoadPakFile(Cur, n2)
           /\ \A b \in BOOLEAN : UnloadPakFile(Cur, n1, b) = UnloadPakFile(Cur, n2, b)
           /\ IsInPakList(Cur, n1) <=> IsInPakList(Cur, n2)
           /\ IsInCacheList(Cur, n1) <=> IsInCacheList(Cur, n2)

\* loadPakFile("misc.pak") has returned true: the package is in the normal
\* layer and in the cache for "misc.pak" as for "MISC.PAK", and
\* unloadPakFile of either name takes it out.
C35_Witness ==
    /\ call.op = "loadPakFile" /\ call.name = "misc.pak" /\ call.ret
    /\ status = "running"
    /\ SSHasArchive(archiveFiles, "MISC.PAK") /\ "MISC.PAK" \in DOMAIN archiveCache
    /\ IsInPakList(Cur, "misc.pak") /\ IsInCacheList(Cur, "misc.pak")
    /\ UnloadPakFile(Cur, "misc.pak", TRUE) # Cur
    /\ UnloadPakFile(Cur, "misc.pak", TRUE) = UnloadPakFile(Cur, "MISC.PAK", TRUE)

----------------------------------------------------------------------------
\* ToonEngine: the inventory.  A game state g has the fields of NewGameState;
\* the slots at and behind numInventoryItems keep what was written to them.

\* Items addItemToInventory does not store, and the item that stands for the
\* confiscated inventory.
Unstorable == {103, 104, 89, 82}
ConfiscatedItem == 41

\* Items of the game that are stored like any other.
OrdinaryItems == {59, 67}

\* GameState::hasItemInInventory
HasItemInInventory(g, item) ==
    \E i \in Slots : i < g.numInventoryItems /\ g.inventory[i] = item

\* The lowest slot in use that holds item; only asked where there is one.
FirstSlotWith(g, item) ==
    CHOOSE i \in Slots :
        /\ i < g.numInventoryItems /\ g.inventory[i] = item
        /\ \A k \in Slots : (k < i) => g.inventory[k] # item

RECURSIVE AddItemToInventory(_, _), AddConfiscated(_, _)

\* Mutant of AddItemToInventory: an item that is stored is always appended.
AddItemToInventory_Appends(g, item) ==
    IF item \in Unstorable THEN [g EXCEPT !.mouseState = -1]
    ELSE IF item = ConfiscatedItem
         THEN [AddConfiscated(g, 0) EXCEPT !.numConfiscatedInventoryItems = 0,
                                            !.mouseState = -1]
    ELSE [g EXCEPT !.inventory[g.numInventoryItems] = item,
                   !.numInventoryItems = @ + 1,
                   !.mouseState = -1]

\* ToonEngine::addItemToInventory
AddItemToInventory(g, item) ==
    IF item \in Unstorable THEN [g EXCEPT !.mouseState = -1]
    ELSE IF item = ConfiscatedItem
         THEN [AddConfiscated(g, 0) EXCEPT !.numConfiscatedInventoryItems = 0,
                                            !.mouseState = -1]
    ELSE IF HasItemInInventory(g, 0)
         THEN [g EXCEPT !.inventory[FirstSlotWith(g, 0)] = item, !.mouseState = -1]
    ELSE [g EXCEPT !.inventory[g.numInventoryItems] = item,
                   !.numInventoryItems = @ + 1,
                   !.mouseState = -1]

\* The loop of addItemToInventory over the confiscated inventory, from i on.
AddConfiscated(g, i) ==
    IF i < g.numConfiscatedInventoryItems
    THEN AddConfiscated(AddItemToInventory(g, g.confiscatedInventory[i]), i + 1)
    ELSE g

RECURSIVE RearrangeFrom(_, _)

\* The loop of rearrangeInventory from i on: an empty slot i takes the items
\* behind it, one slot down each, and i goes on to i + 1 either way.
RearrangeFrom(g, i) ==
    IF i >= g.numInventoryItems THEN g
    ELSE IF g.inventory[i] = 0
         THEN RearrangeFrom(
                [g EXCEPT !.inventory =
                              [k \in Slots |->
                                  IF k >= i /\ k + 1 < g.numInventoryItems
                                  THEN g.inventory[k + 1] ELSE g.inventory[k]],
                          !.numInventoryItems = @ - 1],
                i + 1)
    ELSE RearrangeFrom(g, i + 1)

\* ToonEngine::rearrangeInventory
RearrangeInventory(g) == RearrangeFrom(g, 0)

\* The game state in which deleteItemFromInventory calls rearrangeInventory.
ItemCleared(g, item) == [g EXCEPT !.inventory[FirstSlotWith(g, item)] = 0]

\* ToonEngine::deleteItemFromInventory
DeleteItemFromInventory(g, item) ==
    IF HasItemInInventory(g, item) THEN RearrangeInventory(ItemCleared(g, item))
    ELSE g

\* ToonEngine::createMouseItem
CreateMouseItem(g, item) == [g EXCEPT !.mouseState = item]

\* ToonEngine::deleteMouseItem
DeleteMouseItem(g) == RearrangeInventory([g EXCEPT !.mouseState = -1])

\* ToonEngine::showInventory up to its loop: with an item on the mouse there
\* is an empty slot to put it in.
EnterInventory(g) ==
    LET h == IF g.mouseState >= 0 /\ ~HasItemInInventory(g, 0)
             THEN [g EXCEPT !.inventory[g.numInventoryItems] = 0,
                            !.numInventoryItems = @ + 1]
             ELSE g
    IN [h EXCEPT !.inInventory = TRUE]

\* The loop of showInventory, left button on slot foundObj with no item on
\* the mouse: the item goes to the mouse.
TakeObject(g, foundObj) ==
    [g EXCEPT !.mouseState = g.inventory[foundObj], !.inventory[foundObj] = 0]

\* The loop of showInventory, left button on the empty slot foundObj with an
\* item on the mouse: the item goes to the slot.
PutObject(g, foundObj) ==
    [g EXCEPT !.inventory[foundObj] = g.mouseState, !.mouseState = -1]

\* showInventory behind its loop.
LeaveInventory(g) == [g EXCEPT !.inInventory = FALSE]

\* The arguments of addItemToInventory, deleteItemFromInventory and
\* createMouseItem.
AddItems == OrdinaryItems \cup Unstorable \cup {ConfiscatedItem}
DeleteItems == OrdinaryItems
MouseItems == {89}

\* The inventories the game has confiscated: up to MaxConfiscated items, from
\* slot 0 on.
MaxConfiscated == 2
ConfiscatedOf(n) ==
    {d \in [Slots -> OrdinaryItems \cup {0}] : \A i \in Slots : (i >= n) <=> d[i] = 0}

Confiscations ==
    UNION { { [NewGameState EXCEPT !.confiscatedInventory = c,
                                   !.numConfiscatedInventoryItems = n]
              : c \in ConfiscatedOf(n) }
            : n \in 0..MaxConfiscated }

\* What addItemToInventory(item) writes fits the array.
Fits(g, item) ==
    IF item = ConfiscatedItem
    THEN g.numInventoryItems + g.numConfiscatedInventoryItems <= MaxSlots
    ELSE g.numInventoryItems < MaxSlots

InitInventory ==
    /\ vm = Variant("GI_KYRA3", "DOS", FALSE, FALSE, FALSE, "EN_ANY")
    /\ Fresh
    /\ disk = InitState.disk
    /\ inp = NoInp
    /\ out = NoOut

ToonBecomes(g, op, arg) ==
    /\ gameState' = g
    /\ engineCall' = EngineCalled(op, arg)
    /\ UNCHANGED <<resourceVars, dirtyRects, oldDirtyRects, dirtyAll, burgerVars>>

\* The script says which inventory was confiscated.
LoadConfiscated ==
    /\ engineCall.op = "none"
    /\ \E g \in Confiscations : ToonBecomes(g, "confiscated", <<>>)

CallAddItemToInventory ==
    /\ engineCall.op # "none"
    /\ \E item \in AddItems :
          /\ Fits(gameState, item)
          /\ ToonBecomes(AddItemToInventory(gameState, item), "addItemToInventory", <<item>>)

CallDeleteItemFromInventory ==
    /\ engineCall.op # "none"
    /\ \E item \in DeleteItems :
          ToonBecomes(DeleteItemFromInventory(gameState, item),
                      "deleteItemFromInventory", <<item>>)

CallCreateMouseItem ==
    /\ engineCall.op # "none"
    /\ \E item \in MouseItems :
          ToonBecomes(CreateMouseItem(gameState, item), "createMouseItem", <<item>>)

CallDeleteMouseItem ==
    /\ engineCall.op # "none"
    /\ ToonBecomes(DeleteMouseItem(gameState), "deleteMouseItem", <<>>)

CallShowInventory ==
    /\ engineCall.op # "none"
    /\ ~gameState.inInventory
    /\ gameState.numInventoryItems < MaxSlots
    /\ ToonBecomes(EnterInventory(gameState), "showInventory", <<>>)

ClickTakeObject ==
    /\ gameState.inInventory
    /\ gameState.mouseState < 0
    /\ \E foundObj \in Slots :
          /\ foundObj < gameState.numInventoryItems
          /\ ToonBecomes(TakeObject(gameState, foundObj), "takeObject", <<foundObj>>)

ClickPutObject ==
    /\ gameState.inInventory
    /\ gameState.mouseState >= 0
    /\ \E foundObj \in Slots :
          /\ foundObj < gameState.numInventoryItems
          /\ gameState.inventory[foundObj] = 0
          /\ ToonBecomes(PutObject(gameState, foundObj), "putObject", <<foundObj>>)

ClickLeaveInventory ==
    /\ gameState.inInventory
    /\ ToonBecomes(LeaveInventory(gameState), "leaveInventory", <<>>)

NextInventory ==
    \/ LoadConfiscated
    \/ CallAddItemToInventory
    \/ CallDeleteItemFromInventory
    \/ CallCreateMouseItem
    \/ CallDeleteMouseItem
    \/ CallShowInventory
    \/ ClickTakeObject
    \/ ClickPutObject
    \/ ClickLeaveInventory

SpecInventory == InitInventory /\ [][NextInventory]_vars

\* The items in the slots in use, empty slots left out, in the order of the
\* slots.
RECURSIVE ItemsFrom(_, _)
ItemsFrom(g, i) ==
    IF i >= g.numInventoryItems THEN <<>>
    ELSE IF g.inventory[i] = 0 THEN ItemsFrom(g, i + 1)
    ELSE <<g.inventory[i]>> \o ItemsFrom(g, i + 1)

ItemsOf(g) == ItemsFrom(g, 0)

\* h is g compacted.
Compacted(g, h) ==
    /\ \A i \in Slots : (i < h.numInventoryItems) => h.inventory[i] # 0
    /\ ItemsOf(h) = ItemsOf(g)
    /\ h.numInventoryItems = Len(ItemsOf(g))

\* C36: rearrangeInventory compacts the inventory, whatever empty slots it
\* has: behind the call (from deleteMouseItem, or from deleteItemFromInventory
\* behind the slot it cleared) no slot in use is 0, the items are the ones
\* that were there, in their order, and numInventoryItems is their number.
C36_RearrangeCompacts ==
    [][/\ (engineCall'.op = "deleteMouseItem") => Compacted(gameState, gameState')
       /\ (engineCall'.op = "deleteItemFromInventory"
              /\ HasItemInInventory(gameState, engineCall'.arg[1]))
          => Compacted(ItemCleared(gameState, engineCall'.arg[1]), gameState')
      ]_vars

\* The number of slots in use that hold item.
CountOf(g, item) ==
    Cardinality({i \in Slots : i < g.numInventoryItems /\ g.inventory[i] = item})

\* The number of confiscated slots that hold item.
ConfiscatedCountOf(g, item) ==
    Cardinality({i \in Slots : i < g.numConfiscatedInventoryItems
                                /\ g.confiscatedInventory[i] = item})

\* h is g with item in slot i and the mouse free.
Stored(g, h, i, item) ==
    /\ h.inventory = [g.inventory EXCEPT ![i] = item]
    /\ h.confiscatedInventory = g.confiscatedInventory
    /\ h.numConfiscatedInventoryItems = g.numConfiscatedInventoryItems

----------------------------------------------------------------------------
\* ToonEngine: the rectangles of the back buffer to redraw.

\* The size of the back buffer.
BackbufferWidth == 2
BackbufferHeight == 1

MakeRect(left, top, right, bottom) ==
    [left |-> left, top |-> top, right |-> right, bottom |-> bottom]

\* Common::Rect::contains(const Rect &)
Contains(a, r) ==
    a.left <= r.left /\ r.right <= a.right /\ a.top <= r.top /\ r.bottom <= a.bottom

\* MIN<int32>(MAX<int32>(v, 0), limit)
Clip(v, limit) ==
    LET m == IF v > 0 THEN v ELSE 0 IN IF m < limit THEN m ELSE limit

\* The rectangle addDirtyRect makes of its arguments.
Clipped(left, top, right, bottom) ==
    MakeRect(Clip(left, BackbufferWidth), Clip(top, BackbufferHeight),
             Clip(right, BackbufferWidth), Clip(bottom, BackbufferHeight))

\* bottom - top <= 0 || right - left <= 0
IsEmptyRect(r) == r.bottom - r.top <= 0 \/ r.right - r.left <= 0

\* Common::Array::remove_at, the first element being 1.
RemoveAt(list, i) == SubSeq(list, 1, i - 1) \o SubSeq(list, i + 1, Len(list))

RECURSIVE CoverLoop(_, _, _), CoverLoop_NoReturn(_, _, _), OldLoop(_, _, _)

\* Mutant of CoverLoop: a listed rectangle that contains rect does not end
\* the loop.
CoverLoop_NoReturn(list, rect, i) ==
    IF i > Len(list) THEN [covered |-> FALSE, list |-> list]
    ELSE IF Contains(rect, list[i]) THEN CoverLoop(RemoveAt(list, i), rect, i)
    ELSE CoverLoop(list, rect, i + 1)

\* The loop of addDirtyRect over _dirtyRects from element i on: it ends at a
\* rectangle that contains rect, and takes out the ones rect contains.
CoverLoop(list, rect, i) ==
    IF i > Len(list) THEN [covered |-> FALSE, list |-> list]
    ELSE IF Contains(list[i], rect) THEN [covered |-> TRUE, list |-> list]
    ELSE IF Contains(rect, list[i]) THEN CoverLoop(RemoveAt(list, i), rect, i)
    ELSE CoverLoop(list, rect, i + 1)

\* The loop of addDirtyRect over _oldDirtyRects, from element i down.
OldLoop(list, rect, i) ==
    IF i < 1 THEN list
    ELSE IF Contains(rect, list[i]) THEN OldLoop(RemoveAt(list, i), rect, i - 1)
    ELSE OldLoop(list, rect, i - 1)

\* ToonEngine::addDirtyRect, on d = the two lists and _dirtyAll
AddDirtyRect(d, left, top, right, bottom) ==
    LET rect == Clipped(left, top, right, bottom)
        c == CoverLoop(d.dirtyRects, rect, 1)
    IN IF IsEmptyRect(rect) THEN d
       ELSE IF c.covered THEN [d EXCEPT !.dirtyRects = c.list]
       ELSE [d EXCEPT !.dirtyRects = Append(c.list, rect),
                      !.oldDirtyRects = OldLoop(@, rect, Len(@))]

\* ToonEngine::dirtyAllScreen
DirtyAllScreen(d) == [d EXCEPT !.dirtyRects = <<>>, !.dirtyAll = TRUE]

\* ToonEngine::clearDirtyRects
ClearDirtyRects(d) ==
    [d EXCEPT !.oldDirtyRects = d.dirtyRects, !.dirtyRects = <<>>, !.dirtyAll = FALSE]

\* ToonEngine::render, as far as the lists go
Render(d) ==
    ClearDirtyRects(
        IF d.dirtyAll
        THEN [d EXCEPT !.dirtyRects =
                           Append(@, MakeRect(0, 0, BackbufferWidth, BackbufferHeight))]
        ELSE d)

CurDirty == [dirtyRects |-> dirtyRects, oldDirtyRects |-> oldDirtyRects,
             dirtyAll |-> dirtyAll]

DirtyBecomes(d, op, arg) ==
    /\ dirtyRects' = d.dirtyRects
    /\ oldDirtyRects' = d.oldDirtyRects
    /\ dirtyAll' = d.dirtyAll
    /\ engineCall' = EngineCalled(op, arg)
    /\ UNCHANGED <<resourceVars, gameState, burgerVars>>

\* The coordinates addDirtyRect is called with: inside the back buffer, on
\* its edges and beyond them.
XCoords == (0 - 1)..(BackbufferWidth + 1)
YCoords == (0 - 1)..(BackbufferHeight + 1)

InitDirty == InitInventory

CallAddDirtyRect ==
    \E left, right \in XCoords, top, bottom \in YCoords :
        DirtyBecomes(AddDirtyRect(CurDirty, left, top, right, bottom), "addDirtyRect",
                     <<Clipped(left, top, right, bottom)>>)

CallDirtyAllScreen == DirtyBecomes(DirtyAllScreen(CurDirty), "dirtyAllScreen", <<>>)

CallClearDirtyRects == DirtyBecomes(ClearDirtyRects(CurDirty), "clearDirtyRects", <<>>)

CallRender == DirtyBecomes(Render(CurDirty), "render", <<>>)

NextDirty ==
    \/ CallAddDirtyRect
    \/ CallDirtyAllScreen
    \/ CallClearDirtyRects
    \/ CallRender

SpecDirty == InitDirty /\ [][NextDirty]_vars

\* Rectangle r has an area and lies inside the back buffer.
InsideBackbuffer(r) ==
    /\ 0 <= r.left /\ r.left < r.right /\ r.right <= BackbufferWidth
    /\ 0 <= r.top /\ r.top < r.bottom /\ r.bottom <= BackbufferHeight

\* A rectangle of the list contains rect.
Covered(list, rect) == \E i \in 1..Len(list) : Contains(list[i], rect)

\* C38: behind any calls of addDirtyRect, dirtyAllScreen and clearDirtyRects
\* (and of render, which ends in clearDirtyRects) every rectangle of
\* _dirtyRects has an area and lies inside the back buffer, and none contains
\* another one of the list; addDirtyRect leaves the list as it is when the
\* clipped rectangle is empty or a listed rectangle contains it.
C38_DirtyRects ==
    /\ [](/\ \A i \in 1..Len(dirtyRects) : InsideBackbuffer(dirtyRects[i])
          /\ \A i, j \in 1..Len(dirtyRects) :
                (i # j) => ~Contains(dirtyRects[i], dirtyRects[j]))
    /\ [][(engineCall'.op = "addDirtyRect"
              /\ (IsEmptyRect(engineCall'.arg[1]) \/ Covered(dirtyRects, engineCall'.arg[1])))
          => dirtyRects' = dirtyRects]_vars

\* addDirtyRect was called with a rectangle that a listed rectangle, a
\* larger one, contains: it is not in the list.
C38_Witness ==
    /\ engineCall.op = "addDirtyRect"
    /\ Len(dirtyRects) >= 1
    /\ ~IsEmptyRect(engineCall.arg[1])
    /\ Covered(dirtyRects, engineCall.arg[1])
    /\ \A i \in 1..Len(dirtyRects) : dirtyRects[i] # engineCall.arg[1]

----------------------------------------------------------------------------
\* M4::Burger::Console

\* c ? a : b of C++, the condition an int
Cond(c, a, b) == IF c # 0 THEN a ELSE b

\* The initializer of tests in cmdTest, as the compiler reads it: + binds
\* tighter than ?:, and ?: groups to the right, so each "0 + flag" is the
\* condition of the next ?: and the whole rest is the third operand of the
\* one before.
TestsPassed(fl) ==
    Cond(fl["kFirstTestPassed"], 1,
      Cond(0 + fl["kSecondTestPassed"], 1,
        Cond(0 + fl["kThirdTestPassed"], 1,
          Cond(0 + fl["kFourthTestPassed"], 1,
            Cond(0 + fl["kFifthTestPassed"], 1, 0)))))

\* Console::cmdTest: what debugPrintf gets behind "Tests passed = ".
CmdTest(fl) == <<TestsPassed(fl)>>

\* The values the game gives a test flag.
FlagValues == {0, 1}

InitBurger == InitInventory

\* The game sets or clears one of the flags.
SetFlag ==
    /\ \E f \in FlagNames, v \in FlagValues :
          /\ flags' = [flags EXCEPT ![f] = v]
          /\ engineCall' = EngineCalled("setFlag", <<f, v>>)
    /\ UNCHANGED <<resourceVars, toonVars, console>>

CallCmdTest ==
    /\ console' = CmdTest(flags)
    /\ engineCall' = EngineCalled("cmdTest", <<>>)
    /\ UNCHANGED <<resourceVars, toonVars, flags>>

NextBurger == SetFlag \/ CallCmdTest

SpecBurger == InitBurger /\ [][NextBurger]_vars

\* The flags of the five that are set.
FlagsSet == {f \in FlagNames : flags[f] # 0}

\* C39: the command "test" prints the number of the five test flags that are
\* set, for each of the 32 combinations of the flags.
C39_TestsPassed ==
    (engineCall.op = "cmdTest") => console = <<Cardinality(FlagsSet)>>

====
